---- MODULE Spec2Model ----
(***************************************************************************)
(* Session / profile lifecycle of the WaxRadio client.                     *)
(*                                                                         *)
(* AuthProvider (hooks/useAuth, newest variant), useOnboarding and the     *)
(* render gating of WaxRadioApp (app/page.tsx), together with the profile  *)
(* store (Firestore "users" collection) and the identity gateway           *)
(* (Firebase Auth).  Every await of the source is a step boundary: the     *)
(* code between two awaits runs as one action.                             *)
(*                                                                         *)
(* The track catalog of useMusic (hooks/useMusic): the heat score          *)
(* function, uploadTrack, fetchTracks and voteTrack of two browsers on     *)
(* the Firestore "tracks" collection.                                      *)
(***************************************************************************)
EXTENDS Integers, Sequences, FiniteSets, Bags, TLC

\* ---------------------------------------------------------------- bounds
\* number of non-null principal-change notifications in one page life
MaxHandlers == 2
\* number of reloads of the page by its Retry button
MaxReloads == 1
\* votes cast on the tracks of the catalog in one run
MaxVotes == 2
\* calls of useMusic one client has in flight
MaxCalls == 1
\* largest vote total of a track the heat score function is applied to
MaxCount == 32
\* play() promises not yet settled plus preview timeouts pending, per player
MaxTimers == 2

\* -------------------------------------------------------------- constants
Principals == {"A", "B"}
Null == "null"
UserTypes == {"artist", "fan"}
Bios == {"", "b"}
\* a stored flag is missing (legacy document), false or true
Flags == {"missing", "false", "true"}
ErrCodes == {"unavailable", "permission-denied", "other"}

\* while (retryCount < maxRetries)
maxRetries_4 == 2 + 2
maxRetries == 3

\* setTimeout(resolve, 1000 * retryCount)
BackoffMs(retryCount) == 1000 * retryCount

Absent == [exists |-> FALSE]
NullProfile == [uid |-> Null]
NoUpdate == [active |-> FALSE]
NoError == "none"

\* ------------------------------------------------------- tracks: constants
\* two browsers; the session of c1 is the one modelled above
Clients == {"c1", "c2"}
LocalClient == "c1"
\* ids of the documents addDoc creates, in the order it creates them
IdOrder == <<"t1">>
TrackIds == {IdOrder[i] : i \in DOMAIN IdOrder}
VoteTypes == {"up", "down"}

NoTrack == [exists |-> FALSE]

\* a document of the tracks collection; updatedAt counts the writes of the
\* document as a logical server clock
TrackDoc(upvotes, downvotes, heatScore, updatedAt) ==
  [exists |-> TRUE, upvotes |-> upvotes, downvotes |-> downvotes,
   heatScore |-> heatScore, updatedAt |-> updatedAt]

\* a MusicTrack of the local list
MusicTrack(id, upvotes, downvotes, heatScore) ==
  [id |-> id, upvotes |-> upvotes, downvotes |-> downvotes,
   heatScore |-> heatScore]

getPlaceholderTracks ==
  << MusicTrack("placeholder-1", 0, 0, 30),
     MusicTrack("placeholder-2", 0, 0, 30),
     MusicTrack("placeholder-3", 0, 0, 30) >>

\* Math.round without the half added: the fraction is dropped
MathRound_truncated(n, d) == n \div d

\* Math.round(n / d) for n >= 0 and d > 0: floor(n / d + 1/2), so a half goes up.
\* The quotients below are exact in double arithmetic for totals under 160
MathRound(n, d) == (2 * n + d) \div (2 * d)

\* ratio * 100 in place of ratio * 80
calculateHeatScore_wide(upvotes, downvotes) ==
  LET totalVotes == upvotes + downvotes
  IN  IF totalVotes = 0 THEN 30
      ELSE MathRound(30 * totalVotes + upvotes * 100, totalVotes)

\* the ratio taken of the down votes
calculateHeatScore_inverted(upvotes, downvotes) ==
  LET totalVotes == upvotes + downvotes
  IN  IF totalVotes = 0 THEN 30
      ELSE MathRound(30 * totalVotes + downvotes * 80, totalVotes)

\* const ratio = upvotes / totalVotes; Math.round(30 + (ratio * 80))
calculateHeatScore(upvotes, downvotes) ==
  LET totalVotes == upvotes + downvotes
  IN  IF totalVotes = 0 THEN 30
      ELSE MathRound(30 * totalVotes + upvotes * 80, totalVotes)

\* trackData of uploadTrack
NewTrackDoc == TrackDoc(0, 0, 30, 0)

\* the calls in flight are a bag: two equal calls are two calls
NoCalls == EmptyBag

\* the toasts of TrackCard: the last one shown in a browser
Toasts == {"none", "voted", "failed", "placeholder", "noPreview"}
NoToasts == [c \in Clients |-> "none"]

\* the track a card shows is its track prop; every card calls useAudioPlayer,
\* so there is one player per card, named here by the track the card shows
Cards == {"t1", "t2", "placeholder-1"}

\* track.id.startsWith('placeholder-')
isPlaceholder(id) == id \in {getPlaceholderTracks[i].id : i \in DOMAIN getPlaceholderTracks}

\* audio.src: no source yet, or the previewUrl or the fullUrl of a track
NoSrc == [id |-> Null, url |-> "none"]
SrcOf(id, isPreview) == [id |-> id, url |-> IF isPreview THEN "previewUrl" ELSE "fullUrl"]

\* the operations of a player, and the events and callbacks that run on it
PlayerOps == {"none", "loadTrack", "play", "pause", "voteUp", "voteDown",
              "skipToNext", "resolved", "rejected", "previewTimeout", "ended",
              "timeupdate"}

\* useState of useAudioPlayer, the audio element and the timeout ref, after
\* the effect that creates the element.  promises are the play() promises
\* not yet settled, counted by what their then-callback saw when play was
\* called: arm (state.isPreview && !state.hasVoted) or plain.  refArmed: the
\* timeout in previewTimeoutRef is pending; leaked: pending timeouts whose
\* handle the ref no longer holds.  advanced and lastOp are history: whether
\* skipToNext has run since the last loadTrack, and what ran last.
NewPlayer ==
  [currentTrack |-> Null, src |-> NoSrc, paused |-> TRUE, currentTime |-> 0,
   isPlaying |-> FALSE, isPreview |-> TRUE, hasVoted |-> FALSE,
   error |-> "none", arm |-> 0, plain |-> 0, refArmed |-> FALSE, leaked |-> 0,
   advanced |-> FALSE, lastOp |-> "none"]
NoPlayback == [p \in Cards |-> NewPlayer]

VARIABLES
  store,                 \* Firestore users/{uid}
  accounts,              \* principals the identity gateway knows
  authUser,              \* auth.currentUser
  reported,              \* the listener has been called at least once
  user,                  \* useState user
  userProfile,           \* useState userProfile
  loading,               \* useState loading
  profileSetupComplete,  \* useState profileSetupComplete
  error,                 \* useState error
  authTimer,             \* the 3 s timeout of AuthProvider is pending
  loadingTimeout,        \* useState loadingTimeout of WaxRadioApp
  showOnboarding,        \* useState showOnboarding of useOnboarding
  lsOnboarded,           \* localStorage 'waxradio-onboarding-completed'
  handlers,              \* invocations of the onAuthStateChanged callback in flight
  started,               \* number of invocations for a non-null principal so far
  creators,              \* signUp / handleGoogleSignInResult in flight
  upd,                   \* the updateUserProfile call in flight
  reloads,               \* number of reloads of the page so far
  trackDocs,             \* Firestore tracks/{id}
  tracks,                \* useState tracks of useMusic, one list per client
  calls,                 \* uploadTrack / fetchTracks / voteTrack calls in flight
  toast,                 \* the last toast of a TrackCard, per browser
  player                 \* useAudioPlayer, one state and audio element per instance

vars == <<store, accounts, authUser, reported, user, userProfile, loading,
          profileSetupComplete, error, authTimer, loadingTimeout,
          showOnboarding, lsOnboarded, handlers, started, creators, upd,
          reloads, trackDocs, tracks, calls, toast, player>>

\* useOnboarding's isLoading is cleared by its first effect, right after mount
onboardingLoading == FALSE

\* ------------------------------------------------------------ pure helpers
\* data.x || false
Truthy(flag) == flag = "true"

FlagOf(b) == IF b THEN "true" ELSE "false"

\* !!(data.bio && data.bio.trim())
HasBio(bio) == bio # ""

\* data.userType === 'fan' || !!(data.bio && data.bio.trim())
ShouldBeComplete(data) == data.userType = "fan" \/ HasBio(data.bio)

\* !data.hasOwnProperty('profileSetupComplete') || !data.hasOwnProperty('onboarded')
NeedsUpdate_always(data) == TRUE
NeedsUpdate(data) == data.sc = "missing" \/ data.ob = "missing"

\* updateData of the migration: "none" for a field it does not write
MigrationPatch(data) ==
  [sc |-> IF data.sc = "missing" THEN FlagOf(ShouldBeComplete(data)) ELSE "none",
   ob |-> IF data.ob = "missing" THEN "true" ELSE "none"]

\* the profile object built from a fetched document
ProfileFromDoc(uid, data) ==
  [uid |-> uid, userType |-> data.userType, displayName |-> data.displayName,
   bio |-> data.bio, sc |-> Truthy(data.sc), ob |-> Truthy(data.ob)]

\* minimalProfile of the listener
MinimalDoc ==
  [exists |-> TRUE, userType |-> "fan", displayName |-> "default", bio |-> "",
   sc |-> "false", ob |-> "false"]

\* userProfile written by signUp
SignUpDoc(userType) ==
  [exists |-> TRUE, userType |-> userType, displayName |-> "chosen", bio |-> "",
   sc |-> "false", ob |-> "false"]

\* userProfile written by handleGoogleSignInResult
GoogleDoc ==
  [exists |-> TRUE, userType |-> "fan", displayName |-> "default", bio |-> "",
   sc |-> "false", ob |-> "false"]

\* updateDoc: only the named fields change
PatchDoc(data, sc, ob, bio) ==
  [data EXCEPT !.sc = IF sc = "none" THEN @ ELSE sc,
               !.ob = IF ob = "none" THEN @ ELSE ob,
               !.bio = IF bio = "none" THEN @ ELSE bio]

\* {...userProfile, ...updates}
PatchProfile(prof, sc, ob, bio) ==
  [prof EXCEPT !.sc = IF sc = "none" THEN @ ELSE Truthy(sc),
               !.ob = IF ob = "none" THEN @ ELSE Truthy(ob),
               !.bio = IF bio = "none" THEN @ ELSE bio]

\* useOnboarding effect on [userProfile]
OnboardingEffect(prof) == IF prof = NullProfile THEN TRUE ELSE ~prof.ob

\* setError(...) when the retries are exhausted
ClassifyError(code) ==
  IF code = "unavailable" THEN "connection"
  ELSE IF code = "permission-denied" THEN "permission"
  ELSE "load-failed"

\* the screen WaxRadioApp renders for given values of the hooks' state
ScreenOf(ld, obl, lt, err, usr, prof, psc, show) ==
  IF (ld \/ obl) /\ ~lt THEN "Loading"
  ELSE IF err # NoError THEN "AuthError"
  ELSE IF usr = Null \/ lt THEN "Unauthenticated"
  ELSE IF prof = NullProfile THEN "ProfileLoading"
  ELSE IF prof.userType = "artist" /\ ~psc
       THEN "ProfileSetupRequired"
  ELSE IF prof.userType = "fan" THEN "Ready"
  ELSE IF show /\ psc THEN "OnboardingRequired"
  ELSE "Ready"

\* the screen WaxRadioApp renders
Screen ==
  ScreenOf(loading, onboardingLoading, loadingTimeout, error, user, userProfile,
           profileSetupComplete, showOnboarding)

\* ------------------------------------------------------------------- init
\* documents a principal may own before the page is loaded
Doc(userType, bio, sc, ob) ==
  [exists |-> TRUE, userType |-> userType, displayName |-> "chosen",
   bio |-> bio, sc |-> sc, ob |-> ob]

InitDocs ==
  { Doc("artist", "", "missing", "missing"),     \* legacy documents
    Doc("artist", "b", "missing", "missing"),
    Doc("fan", "", "missing", "missing"),
    Doc("artist", "b", "true", "missing"),
    Doc("artist", "", "false", "false"),         \* as signUp writes them
    Doc("fan", "", "false", "false"),
    Doc("artist", "b", "true", "false"),         \* set up, tutorial pending
    Doc("artist", "b", "true", "true") }         \* fully set up

InitWith(known) ==
  /\ store \in {s \in [Principals -> InitDocs \cup {Absent}] : s["B"] = Absent}
  /\ accounts = known
  /\ authUser = Null
  /\ reported = FALSE
  /\ user = Null
  /\ userProfile = NullProfile
  /\ loading = TRUE
  /\ profileSetupComplete = FALSE
  /\ error = NoError
  /\ authTimer = TRUE
  /\ loadingTimeout = FALSE
  /\ showOnboarding = TRUE
  /\ lsOnboarded = FALSE
  /\ handlers = {}
  /\ started = 0
  /\ creators = {}
  /\ upd = NoUpdate
  /\ reloads = 0
  /\ trackDocs = [i \in TrackIds |-> NoTrack]
  /\ tracks = [c \in Clients |-> <<>>]
  /\ calls = NoCalls
  /\ toast = NoToasts
  /\ player = NoPlayback

\* A has an account and perhaps a document; B has an account without a document
Init == InitWith({"A", "B"})

\* ------------------------------------------------- identity gateway events
NoPatch == [sc |-> "none", ob |-> "none"]

NewHandler(p) ==
  [id |-> started + 1, uid |-> p, pc |-> "fetch", retryCount |-> 0, waitMs |-> 0,
   patch |-> NoPatch]

\* the invocation h moves on to h2 / returns
Continue(h, h2) == (handlers \ {h}) \cup {h2}
Return(h) == handlers \ {h}

\* the callback given to onAuthStateChanged, up to its first await
ListenerStart(p) ==
  /\ reported' = TRUE
  /\ authTimer' = FALSE
  /\ user' = p
  /\ error' = NoError
  /\ IF p # Null
     THEN /\ handlers' = handlers \cup {NewHandler(p)}
          /\ started' = started + 1
          /\ UNCHANGED <<userProfile, profileSetupComplete, loading, showOnboarding>>
     ELSE /\ userProfile' = NullProfile
          /\ profileSetupComplete' = FALSE
          /\ loading' = FALSE
          /\ showOnboarding' = IF userProfile = NullProfile THEN showOnboarding
                               ELSE OnboardingEffect(NullProfile)
          /\ UNCHANGED <<handlers, started>>

\* the gateway's first notification when no session is restored
FirstReportNull ==
  /\ ~reported
  /\ authUser = Null
  /\ ListenerStart(Null)
  /\ UNCHANGED <<store, accounts, authUser, loadingTimeout, lsOnboarded, creators, upd,
                 reloads, trackDocs, tracks, calls, toast, player>>

\* signIn, or a session restored at page load
SignIn(p) ==
  /\ authUser = Null
  /\ p \in accounts
  /\ started < MaxHandlers
  /\ authUser' = p
  /\ ListenerStart(p)
  /\ UNCHANGED <<store, accounts, loadingTimeout, lsOnboarded, creators, upd,
                 reloads, trackDocs, tracks, calls, toast, player>>

\* signUp: createUserWithEmailAndPassword resolves, setDoc still to come
SignUp(p, userType) ==
  /\ authUser = Null
  /\ p \notin accounts
  /\ started < MaxHandlers
  /\ accounts' = accounts \cup {p}
  /\ authUser' = p
  /\ creators' = creators \cup {[uid |-> p, by |-> "signUp", pc |-> "set", userType |-> userType]}
  /\ ListenerStart(p)
  /\ UNCHANGED <<store, loadingTimeout, lsOnboarded, upd,
                 reloads, trackDocs, tracks, calls, toast, player>>

\* signInWithGoogle: signInWithPopup resolves, handleGoogleSignInResult to come
GoogleSignIn(p) ==
  /\ authUser = Null
  /\ started < MaxHandlers
  /\ accounts' = accounts \cup {p}
  /\ authUser' = p
  /\ creators' = creators \cup {[uid |-> p, by |-> "google", pc |-> "get", userType |-> "fan"]}
  /\ ListenerStart(p)
  /\ UNCHANGED <<store, loadingTimeout, lsOnboarded, upd,
                 reloads, trackDocs, tracks, calls, toast, player>>

\* signOut, or the session expiring
SignOut ==
  /\ authUser # Null
  /\ authUser' = Null
  /\ ListenerStart(Null)
  /\ UNCHANGED <<store, accounts, loadingTimeout, lsOnboarded, creators, upd,
                 reloads, trackDocs, tracks, calls, toast, player>>

\* ------------------------------------------- signUp / Google profile writes
\* handleGoogleSignInResult: getDoc, then setDoc only when absent
GoogleGet(c) ==
  /\ c \in creators
  /\ c.pc = "get"
  /\ creators' = IF store[c.uid].exists THEN creators \ {c}
                 ELSE (creators \ {c}) \cup {[c EXCEPT !.pc = "set"]}
  /\ UNCHANGED <<store, accounts, authUser, reported, user, userProfile, loading,
                 profileSetupComplete, error, authTimer, loadingTimeout,
                 showOnboarding, lsOnboarded, handlers, started, upd,
                 reloads, trackDocs, tracks, calls, toast, player>>

\* setDoc(doc(db, 'users', uid), userProfile) of signUp / handleGoogleSignInResult
CreatorSet(c) ==
  /\ c \in creators
  /\ c.pc = "set"
  /\ store' = [store EXCEPT ![c.uid] =
                 IF c.by = "signUp" THEN SignUpDoc(c.userType) ELSE GoogleDoc]
  /\ creators' = creators \ {c}
  /\ UNCHANGED <<accounts, authUser, reported, user, userProfile, loading,
                 profileSetupComplete, error, authTimer, loadingTimeout,
                 showOnboarding, lsOnboarded, handlers, started, upd,
                 reloads, trackDocs, tracks, calls, toast, player>>

\* the store rejects the request: signUp / signInWithGoogle rethrow
CreatorFail(c) ==
  /\ c \in creators
  /\ creators' = creators \ {c}
  /\ UNCHANGED <<store, accounts, authUser, reported, user, userProfile, loading,
                 profileSetupComplete, error, authTimer, loadingTimeout,
                 showOnboarding, lsOnboarded, handlers, started, upd,
                 reloads, trackDocs, tracks, calls, toast, player>>

\* ------------------------------------------------ the profile fetch loop
\* await getDoc(...) resolves
FetchOk(h) ==
  LET data == store[h.uid]
      prof == ProfileFromDoc(h.uid, data)
  IN
  /\ h \in handlers
  /\ h.pc = "fetch"
  /\ IF data.exists
     THEN /\ userProfile' = prof
          /\ showOnboarding' = OnboardingEffect(prof)
          /\ profileSetupComplete' = Truthy(data.sc)
          /\ IF NeedsUpdate(data)
             THEN /\ handlers' = Continue(h, [h EXCEPT !.pc = "migrate",
                                                       !.patch = MigrationPatch(data)])
                  /\ UNCHANGED loading
             ELSE /\ handlers' = Return(h)
                  /\ loading' = FALSE
     ELSE /\ handlers' = Continue(h, [h EXCEPT !.pc = "create"])
          /\ UNCHANGED <<userProfile, showOnboarding, profileSetupComplete, loading>>
  /\ UNCHANGED <<store, accounts, authUser, reported, user, error, authTimer,
                 loadingTimeout, lsOnboarded, started, creators, upd,
                 reloads, trackDocs, tracks, calls, toast, player>>

\* await getDoc(...) rejects: the catch block
FetchFail(h, code) ==
  LET n == h.retryCount + 1 IN
  /\ h \in handlers
  /\ h.pc = "fetch"
  /\ IF n >= maxRetries
     THEN /\ userProfile' = NullProfile
          /\ showOnboarding' = IF userProfile = NullProfile THEN showOnboarding
                               ELSE OnboardingEffect(NullProfile)
          /\ profileSetupComplete' = FALSE
          /\ error' = ClassifyError(code)
          /\ loading' = FALSE
          /\ handlers' = Return(h)
     ELSE /\ handlers' = Continue(h, [h EXCEPT !.pc = "wait", !.retryCount = n,
                                                  !.waitMs = BackoffMs(n)])
          /\ UNCHANGED <<userProfile, showOnboarding, profileSetupComplete, error, loading>>
  /\ UNCHANGED <<store, accounts, authUser, reported, user, authTimer,
                 loadingTimeout, lsOnboarded, started, creators, upd,
                 reloads, trackDocs, tracks, calls, toast, player>>

\* the backoff timer fires: next iteration of the while loop
RetryTimer(h) ==
  /\ h \in handlers
  /\ h.pc = "wait"
  /\ handlers' = Continue(h, [h EXCEPT !.pc = "fetch", !.waitMs = 0])
  /\ UNCHANGED <<store, accounts, authUser, reported, user, userProfile, loading,
                 profileSetupComplete, error, authTimer, loadingTimeout,
                 showOnboarding, lsOnboarded, started, creators, upd,
                 reloads, trackDocs, tracks, calls, toast, player>>

\* await updateDoc(..., updateData) of the migration resolves
MigrateOk(h) ==
  /\ h \in handlers
  /\ h.pc = "migrate"
  /\ store[h.uid].exists
  /\ store' = [store EXCEPT ![h.uid] = PatchDoc(@, h.patch.sc, h.patch.ob, "none")]
  /\ profileSetupComplete' = IF h.patch.sc # "none" THEN Truthy(h.patch.sc)
                             ELSE profileSetupComplete
  /\ loading' = FALSE
  /\ handlers' = Return(h)
  /\ UNCHANGED <<accounts, authUser, reported, user, userProfile, error, authTimer,
                 loadingTimeout, showOnboarding, lsOnboarded, started, creators, upd,
                 reloads, trackDocs, tracks, calls, toast, player>>

\* the migration write rejects: catch (fixError), logged only
MigrateFail(h) ==
  /\ h \in handlers
  /\ h.pc = "migrate"
  /\ loading' = FALSE
  /\ handlers' = Return(h)
  /\ UNCHANGED <<store, accounts, authUser, reported, user, userProfile,
                 profileSetupComplete, error, authTimer, loadingTimeout,
                 showOnboarding, lsOnboarded, started, creators, upd,
                 reloads, trackDocs, tracks, calls, toast, player>>

\* await setDoc(..., minimalProfile) resolves
CreateOk(h) ==
  LET prof == ProfileFromDoc(h.uid, MinimalDoc) IN
  /\ h \in handlers
  /\ h.pc = "create"
  /\ store' = [store EXCEPT ![h.uid] = MinimalDoc]
  /\ userProfile' = prof
  /\ showOnboarding' = OnboardingEffect(prof)
  /\ profileSetupComplete' = FALSE
  /\ loading' = FALSE
  /\ handlers' = Return(h)
  /\ UNCHANGED <<accounts, authUser, reported, user, error, authTimer,
                 loadingTimeout, lsOnboarded, started, creators, upd,
                 reloads, trackDocs, tracks, calls, toast, player>>

\* the setDoc rejects: catch (createError)
CreateFail(h) ==
  /\ h \in handlers
  /\ h.pc = "create"
  /\ error' = "create-failed"
  /\ loading' = FALSE
  /\ handlers' = Return(h)
  /\ UNCHANGED <<store, accounts, authUser, reported, user, userProfile,
                 profileSetupComplete, authTimer, loadingTimeout,
                 showOnboarding, lsOnboarded, started, creators, upd,
                 reloads, trackDocs, tracks, calls, toast, player>>

\* ----------------------------------------------------------------- timers
\* AuthProvider: setTimeout(() => { if (loading) setLoading(false) }, 3000);
\* the closure holds the loading of the first render, which is true
AuthTimeout ==
  /\ authTimer
  /\ authTimer' = FALSE
  /\ loading' = FALSE
  /\ UNCHANGED <<store, accounts, authUser, reported, user, userProfile,
                 profileSetupComplete, error, loadingTimeout, showOnboarding,
                 lsOnboarded, handlers, started, creators, upd,
                 reloads, trackDocs, tracks, calls, toast, player>>

\* a page without the 5 s timer
PageLoadingTimeout_never == FALSE /\ UNCHANGED vars
\* WaxRadioApp: the 5 s timer, re-armed whenever loading changes; it can only
\* find loading still true when the 3 s timer was cleared by the listener
PageLoadingTimeout ==
  /\ loading \/ onboardingLoading
  /\ ~authTimer
  /\ ~loadingTimeout
  /\ loadingTimeout' = TRUE
  /\ UNCHANGED <<store, accounts, authUser, reported, user, userProfile, loading,
                 profileSetupComplete, error, authTimer, showOnboarding,
                 lsOnboarded, handlers, started, creators, upd,
                 reloads, trackDocs, tracks, calls, toast, player>>

\* ------------------------------------------------------ updateUserProfile
\* updateUserProfile(updates) up to its await; user and userProfile are the
\* values of the render the caller's closure was created in
UpdateCall(caller, sc, ob, bio) ==
  /\ ~upd.active
  /\ user # Null
  /\ upd' = [active |-> TRUE, caller |-> caller, uid |-> user, prof |-> userProfile,
             sc |-> sc, ob |-> ob, bio |-> bio]
  /\ UNCHANGED <<store, accounts, authUser, reported, user, userProfile, loading,
                 profileSetupComplete, error, authTimer, loadingTimeout,
                 showOnboarding, lsOnboarded, handlers, started, creators,
                 reloads, trackDocs, tracks, calls, toast, player>>

\* handleSubmit of the profile forms
CompleteSetup(bio) ==
  /\ Screen = "ProfileSetupRequired"
  /\ UpdateCall("completeSetup", "true", "none", bio)

\* skipSetup of the profile forms
SkipSetup ==
  /\ Screen = "ProfileSetupRequired"
  /\ UpdateCall("skipSetup", "true", "none", "none")

\* completeOnboarding: updateUserProfile({ onboarded: true })
CompleteOnboarding ==
  /\ Screen = "OnboardingRequired"
  /\ UpdateCall("completeOnboarding", "none", "true", "none")

\* resetOnboarding, the onReset of the tutorial: updateUserProfile({ onboarded: false })
ResetOnboarding ==
  /\ Screen = "OnboardingRequired"
  /\ UpdateCall("resetOnboarding", "none", "false", "none")

\* setProfileSetupComplete as updateUserProfile leaves it
FlagAfterUpdate(u) ==
  IF u.sc # "none" THEN Truthy(u.sc)
  ELSE IF u.bio # "none" /\ HasBio(u.bio) THEN TRUE
  ELSE profileSetupComplete

\* await updateDoc(...) resolves: the rest of updateUserProfile and of its caller
UpdateOk ==
  LET newProf == IF upd.prof # NullProfile
                 THEN PatchProfile(upd.prof, upd.sc, upd.ob, upd.bio)
                 ELSE userProfile
      shown == IF upd.prof # NullProfile THEN OnboardingEffect(newProf)
               ELSE showOnboarding
  IN
  /\ upd.active
  /\ store[upd.uid].exists
  /\ store' = [store EXCEPT ![upd.uid] = PatchDoc(@, upd.sc, upd.ob, upd.bio)]
  /\ userProfile' = newProf
  /\ profileSetupComplete' = FlagAfterUpdate(upd)
  /\ showOnboarding' = CASE upd.caller = "completeOnboarding" -> FALSE
                         [] upd.caller = "resetOnboarding" -> TRUE
                         [] OTHER -> shown
  /\ lsOnboarded' = IF upd.caller = "resetOnboarding" THEN FALSE ELSE lsOnboarded
  /\ upd' = NoUpdate
  /\ UNCHANGED <<accounts, authUser, reported, user, loading, error, authTimer,
                 loadingTimeout, handlers, started, creators,
                 reloads, trackDocs, tracks, calls, toast, player>>

\* an updateUserProfile that updates the cache and the flag before the write
\* is known to have succeeded
UpdateFail_optimistic ==
  /\ upd.active
  /\ userProfile' = IF upd.prof # NullProfile
                    THEN PatchProfile(upd.prof, upd.sc, upd.ob, upd.bio)
                    ELSE userProfile
  /\ profileSetupComplete' = FlagAfterUpdate(upd)
  /\ showOnboarding' = CASE upd.caller = "completeOnboarding" -> FALSE
                         [] upd.caller = "resetOnboarding" -> TRUE
                         [] OTHER -> showOnboarding
  /\ lsOnboarded' = CASE upd.caller = "completeOnboarding" -> TRUE
                      [] upd.caller = "resetOnboarding" -> FALSE
                      [] OTHER -> lsOnboarded
  /\ upd' = NoUpdate
  /\ UNCHANGED <<store, accounts, authUser, reported, user, loading,
                 error, authTimer, loadingTimeout,
                 handlers, started, creators,
                 reloads, trackDocs, tracks, calls, toast, player>>

\* a caller without a catch block: nothing but the end of the call
UpdateFail_rethrown ==
  /\ upd.active
  /\ upd' = NoUpdate
  /\ UNCHANGED <<store, accounts, authUser, reported, user, userProfile, loading,
                 profileSetupComplete, error, authTimer, loadingTimeout,
                 showOnboarding, lsOnboarded, handlers, started, creators,
                 reloads, trackDocs, tracks, calls, toast, player>>
\* await updateDoc(...) rejects: rethrown to the caller's catch
UpdateFail ==
  /\ upd.active
  /\ showOnboarding' = CASE upd.caller = "completeOnboarding" -> FALSE
                         [] upd.caller = "resetOnboarding" -> TRUE
                         [] OTHER -> showOnboarding
  /\ lsOnboarded' = CASE upd.caller = "completeOnboarding" -> TRUE
                      [] upd.caller = "resetOnboarding" -> FALSE
                      [] OTHER -> lsOnboarded
  /\ upd' = NoUpdate
  /\ UNCHANGED <<store, accounts, authUser, reported, user, userProfile, loading,
                 profileSetupComplete, error, authTimer, loadingTimeout,
                 handlers, started, creators,
                 reloads, trackDocs, tracks, calls, toast, player>>

\* a retry that only dismisses the error, without loading the page again
Retry_dismissOnly ==
  /\ Screen = "AuthError"
  /\ reloads < MaxReloads
  /\ reloads' = reloads + 1
  /\ error' = NoError
  /\ UNCHANGED <<store, accounts, authUser, reported, user, userProfile, loading,
                 profileSetupComplete, authTimer, loadingTimeout, showOnboarding,
                 lsOnboarded, handlers, started, creators, upd, trackDocs, tracks,
                 calls, toast, player>>
\* ----------------------------------------------------------------- reload
\* the Retry button of the error screen: window.location.reload().  The page
\* starts again with the state of a first render; the store, the gateway's
\* session and local storage outlive it, calls in flight do not
Retry ==
  /\ Screen = "AuthError"
  /\ reloads < MaxReloads
  /\ reloads' = reloads + 1
  /\ reported' = FALSE
  /\ user' = Null
  /\ userProfile' = NullProfile
  /\ loading' = TRUE
  /\ profileSetupComplete' = FALSE
  /\ error' = NoError
  /\ authTimer' = TRUE
  /\ loadingTimeout' = FALSE
  /\ showOnboarding' = TRUE
  /\ handlers' = {}
  /\ started' = 0
  /\ creators' = {}
  /\ upd' = NoUpdate
  /\ tracks' = [tracks EXCEPT ![LocalClient] = <<>>]
  /\ calls' = [k \in {j \in BagToSet(calls) : j.client # LocalClient} |-> calls[k]]
  /\ toast' = [toast EXCEPT ![LocalClient] = "none"]
  /\ player' = NoPlayback
  /\ UNCHANGED <<store, accounts, authUser, lsOnboarded, trackDocs>>

\* the gateway's first notification after a reload, the session restored
SessionRestored ==
  /\ ~reported
  /\ authUser # Null
  /\ started < MaxHandlers
  /\ ListenerStart(authUser)
  /\ UNCHANGED <<store, accounts, authUser, loadingTimeout, lsOnboarded, creators,
                 upd, reloads, trackDocs, tracks, calls, toast, player>>

\* --------------------------------------------------------------- useMusic
sessionVars == <<store, accounts, authUser, reported, user, userProfile, loading,
                 profileSetupComplete, error, authTimer, loadingTimeout,
                 showOnboarding, lsOnboarded, handlers, started, creators, upd,
                 reloads>>

\* const { user } = useAuth(): c1 is the browser whose session is modelled
\* above, the other browser has somebody signed in
SignedIn(c) == c = LocalClient => user # Null

Pending == BagToSet(calls)
\* number of calls of a client in flight
InFlight(c) ==
  BagCardinality([k \in {j \in Pending : j.client = c} |-> calls[k]])
Start(k) == calls (+) SetToBag({k})
Finish(k) == calls (-) SetToBag({k})

FetchCall(c, data) ==
  [client |-> c, op |-> "fetch", trackId |-> "",
   voteType |-> "", newUpvotes |-> 0, newDownvotes |-> 0, newHeatScore |-> 0,
   data |-> data]

VoteCallOf(c, trackId, voteType, newUpvotes, newDownvotes, newHeatScore) ==
  [client |-> c, op |-> "vote", trackId |-> trackId,
   voteType |-> voteType, newUpvotes |-> newUpvotes,
   newDownvotes |-> newDownvotes, newHeatScore |-> newHeatScore, data |-> <<>>]

\* the documents of the collection
Catalog == {i \in TrackIds : trackDocs[i].exists}

\* query(collection(db, 'tracks'), orderBy('heatScore', 'desc')): every order
\* of the catalog with the heat scores descending
QueryTracks ==
  { [n \in DOMAIN order |->
       MusicTrack(order[n], trackDocs[order[n]].upvotes,
                  trackDocs[order[n]].downvotes, trackDocs[order[n]].heatScore)] :
    order \in { o \in [1..Cardinality(Catalog) -> Catalog] :
                 /\ \A m, n \in DOMAIN o : m # n => o[m] # o[n]
                 /\ \A m, n \in DOMAIN o :
                      m < n => trackDocs[o[m]].heatScore >= trackDocs[o[n]].heatScore } }

\* tracks.find(t => t.id === trackId)
Listed(list, trackId) == \E n \in DOMAIN list : list[n].id = trackId
Find(list, trackId) ==
  list[CHOOSE n \in DOMAIN list :
         /\ list[n].id = trackId
         /\ \A m \in DOMAIN list : list[m].id = trackId => n <= m]

\* uploadTrack: addDoc resolves with a new id, setTracks(prev => [newTrack, ...prev])
UploadOk(c) ==
  /\ SignedIn(c)
  /\ Cardinality(Catalog) < Len(IdOrder)
  /\ LET id == IdOrder[Cardinality(Catalog) + 1]
     IN  /\ trackDocs' = [trackDocs EXCEPT ![id] = NewTrackDoc]
         /\ tracks' = [tracks EXCEPT ![c] =
                         <<MusicTrack(id, NewTrackDoc.upvotes, NewTrackDoc.downvotes,
                                      NewTrackDoc.heatScore)>> \o @]
  /\ UNCHANGED <<sessionVars, player, calls>>

\* fetchTracks: getDocs is sent and answered by the store
FetchTracksCall(c) ==
  /\ InFlight(c) < MaxCalls
  /\ \E data \in QueryTracks : calls' = Start(FetchCall(c, data))
  /\ UNCHANGED <<sessionVars, player, trackDocs, tracks>>

\* await getDocs(q) resolves: the list, or the placeholders for an empty one
FetchTracksOk(k) ==
  /\ k \in Pending
  /\ k.op = "fetch"
  /\ tracks' = [tracks EXCEPT ![k.client] =
                  IF Len(k.data) = 0 THEN getPlaceholderTracks ELSE k.data]
  /\ calls' = Finish(k)
  /\ UNCHANGED <<sessionVars, player, trackDocs>>

\* await getDocs(q) rejects: catch, the placeholders
FetchTracksFail(k) ==
  /\ k \in Pending
  /\ k.op = "fetch"
  /\ tracks' = [tracks EXCEPT ![k.client] = getPlaceholderTracks]
  /\ calls' = Finish(k)
  /\ UNCHANGED <<sessionVars, player, trackDocs>>

\* voteTrack up to its await: the track of the list this render holds, the
\* new counters and the new heat score computed from it
VoteCall(c, trackId, voteType) ==
  /\ SignedIn(c)
  /\ Listed(tracks[c], trackId)
  /\ InFlight(c) < MaxCalls
  /\ LET track == Find(tracks[c], trackId)
         newUpvotes == track.upvotes + (IF voteType = "up" THEN 1 ELSE 0)
         newDownvotes == track.downvotes + (IF voteType = "down" THEN 1 ELSE 0)
         newHeatScore == calculateHeatScore(newUpvotes, newDownvotes)
     IN  calls' = Start(VoteCallOf(c, trackId, voteType, newUpvotes,
                                   newDownvotes, newHeatScore))
  /\ UNCHANGED <<sessionVars, player, trackDocs, tracks>>

\* a store that would derive the heat score from its own counters
VoteWrite_derived(doc, k) ==
  LET upvotes == doc.upvotes + (IF k.voteType = "up" THEN 1 ELSE 0)
      downvotes == doc.downvotes + (IF k.voteType = "down" THEN 1 ELSE 0)
  IN  [doc EXCEPT !.upvotes = upvotes,
                  !.downvotes = downvotes,
                  !.heatScore = calculateHeatScore(upvotes, downvotes),
                  !.updatedAt = @ + 1]

\* updateDoc(trackRef, updates) applied by the store: increment(1) on the
\* counter, the client's heat score, serverTimestamp()
VoteWrite(doc, k) ==
  [doc EXCEPT !.upvotes = @ + (IF k.voteType = "up" THEN 1 ELSE 0),
              !.downvotes = @ + (IF k.voteType = "down" THEN 1 ELSE 0),
              !.heatScore = k.newHeatScore,
              !.updatedAt = @ + 1]

\* the map without its test of the id: every track takes the new values
VoteMirror_everyTrack(list, k) ==
  [n \in DOMAIN list |->
     [list[n] EXCEPT !.upvotes = k.newUpvotes,
                     !.downvotes = k.newDownvotes,
                     !.heatScore = k.newHeatScore]]

\* a map that takes the counters and leaves the heat score of the entry
VoteMirror_countersOnly(list, k) ==
  [n \in DOMAIN list |->
     IF list[n].id = k.trackId
     THEN [list[n] EXCEPT !.upvotes = k.newUpvotes,
                          !.downvotes = k.newDownvotes]
     ELSE list[n]]

\* setTracks(prev => prev.map(t => t.id === trackId ? {...} : t))
VoteMirror(list, k) ==
  [n \in DOMAIN list |->
     IF list[n].id = k.trackId
     THEN [list[n] EXCEPT !.upvotes = k.newUpvotes,
                          !.downvotes = k.newDownvotes,
                          !.heatScore = k.newHeatScore]
     ELSE list[n]]

\* await updateDoc(trackRef, updates) resolves
VoteOk(k) ==
  /\ k \in Pending
  /\ k.op = "vote"
  /\ k.trackId \in Catalog
  /\ trackDocs' = [trackDocs EXCEPT ![k.trackId] = VoteWrite(@, k)]
  /\ tracks' = [tracks EXCEPT ![k.client] = VoteMirror(@, k)]
  /\ calls' = Finish(k)
  /\ UNCHANGED <<sessionVars, player>>

\* a voteTrack that updates the list before the write is known to have succeeded
VoteFail_optimistic(k) ==
  /\ k \in Pending
  /\ k.op = "vote"
  /\ tracks' = [tracks EXCEPT ![k.client] = VoteMirror(@, k)]
  /\ calls' = Finish(k)
  /\ UNCHANGED <<sessionVars, player, trackDocs>>

\* await updateDoc(trackRef, updates) rejects (a placeholder has no document):
\* catch, throw error
VoteFail(k) ==
  /\ k \in Pending
  /\ k.op = "vote"
  /\ calls' = Finish(k)
  /\ UNCHANGED <<sessionVars, player, trackDocs, tracks>>

\* if (!user) throw / if (!track) throw, inside the try: catch, throw error
VoteRejected(c, trackId) ==
  /\ ~SignedIn(c) \/ ~Listed(tracks[c], trackId)
  /\ UNCHANGED <<sessionVars, player, trackDocs, tracks, calls>>

\* ---------------------------------------------------------- useAudioPlayer
\* Like the hook of useMusic, the operations of a player say nothing about
\* toast.
Promises(r) == r.arm + r.plain
Timeouts(r) == (IF r.refArmed THEN 1 ELSE 0) + r.leaked

SetPlayer(p, r) ==
  /\ player' = [player EXCEPT ![p] = r]
  /\ UNCHANGED <<sessionVars, trackDocs, tracks, calls>>

\* audio.pause(): on a playing element it sets paused, fires 'pause'
\* (handlePause) and rejects the pending play() promises, whose catch sets
\* the error; on a paused element it does nothing
audioPause(r) ==
  IF r.paused THEN r
  ELSE [r EXCEPT !.paused = TRUE, !.isPlaying = FALSE, !.arm = 0, !.plain = 0,
                 !.error = IF Promises(r) > 0 THEN "Click play to start listening" ELSE @]

\* a loadTrack that starts playback itself
loaded_autoplay(r, track, isPreview) ==
  [audioPause(r) EXCEPT !.currentTime = 0, !.refArmed = FALSE,
                        !.src = SrcOf(track, isPreview), !.currentTrack = track,
                        !.isPreview = isPreview, !.hasVoted = ~isPreview,
                        !.paused = FALSE, !.isPlaying = TRUE,
                        !.arm = IF isPreview THEN 1 ELSE 0,
                        !.plain = IF isPreview THEN 0 ELSE 1,
                        !.error = "none", !.advanced = FALSE]

\* the body of loadTrack; the catch of a play() promise rejected by its pause
\* runs after its setState, so that error wins over error: null
loaded(r, track, isPreview) ==
  [audioPause(r) EXCEPT !.currentTime = 0, !.refArmed = FALSE,
                        !.src = SrcOf(track, isPreview), !.currentTrack = track,
                        !.isPreview = isPreview, !.hasVoted = ~isPreview,
                        !.isPlaying = FALSE,
                        !.error = IF ~r.paused /\ Promises(r) > 0
                                  THEN "Click play to start listening" ELSE "none",
                        !.advanced = FALSE]

LoadTrack(p, track, isPreview) ==
  SetPlayer(p, [loaded(player[p], track, isPreview) EXCEPT !.lastOp = "loadTrack"])

\* play: audio.play() un-pauses ('play', handlePlay) and returns a promise
\* whose then-callback holds the isPreview and hasVoted of this render
Play(p) ==
  LET r == player[p] IN
  IF r.currentTrack = Null
  THEN SetPlayer(p, [r EXCEPT !.lastOp = "play"])
  ELSE /\ Promises(r) + Timeouts(r) < MaxTimers
       /\ SetPlayer(p, [r EXCEPT !.paused = FALSE,
                                 !.isPlaying = IF r.paused THEN TRUE ELSE @,
                                 !.arm = IF r.isPreview /\ ~r.hasVoted THEN @ + 1 ELSE @,
                                 !.plain = IF r.isPreview /\ ~r.hasVoted THEN @ ELSE @ + 1,
                                 !.lastOp = "play"])

\* .then of play(): previewTimeoutRef.current = setTimeout(..., 30000); the
\* timeout the ref held before, if pending, stays pending without a handle
PlayResolved(p, armed) ==
  LET r == player[p] IN
  /\ ~r.paused
  /\ IF armed THEN r.arm > 0 ELSE r.plain > 0
  /\ SetPlayer(p, IF armed
                  THEN [r EXCEPT !.arm = @ - 1, !.refArmed = TRUE,
                                 !.leaked = IF r.refArmed THEN @ + 1 ELSE @,
                                 !.lastOp = "resolved"]
                  ELSE [r EXCEPT !.plain = @ - 1, !.lastOp = "resolved"])

\* .catch of play(), the source cannot be played
PlayRejected(p, armed) ==
  LET r == player[p] IN
  /\ IF armed THEN r.arm > 0 ELSE r.plain > 0
  /\ SetPlayer(p, [r EXCEPT !.arm = IF armed THEN @ - 1 ELSE @,
                            !.plain = IF armed THEN @ ELSE @ - 1,
                            !.error = "Click play to start listening",
                            !.isPlaying = FALSE, !.lastOp = "rejected"])

Pause(p) ==
  SetPlayer(p, [audioPause(player[p]) EXCEPT !.lastOp = "pause"])

TogglePlayPause(p) ==
  IF player[p].isPlaying THEN Pause(p) ELSE Play(p)

\* the callback of setTimeout in play, 30 seconds after it was armed
PreviewTimeout(p, fromRef) ==
  LET r == player[p] IN
  /\ IF fromRef THEN r.refArmed ELSE r.leaked > 0
  /\ SetPlayer(p, [audioPause(r) EXCEPT !.isPlaying = FALSE,
                                        !.refArmed = IF fromRef THEN FALSE ELSE @,
                                        !.leaked = IF fromRef THEN @ ELSE @ - 1,
                                        !.lastOp = "previewTimeout"])

\* handleTimeUpdate while the element plays: the position has left 0
TimeUpdate(p) ==
  LET r == player[p] IN
  /\ ~r.paused
  /\ Promises(r) = 0
  /\ r.currentTime = 0
  /\ SetPlayer(p, [r EXCEPT !.currentTime = 1, !.lastOp = "timeupdate"])

\* the body of skipToNext
skipped(r) ==
  [audioPause(r) EXCEPT !.currentTime = 0, !.isPlaying = FALSE, !.hasVoted = FALSE,
                        !.isPreview = TRUE, !.currentTrack = Null, !.advanced = TRUE]

SkipToNext(p) ==
  SetPlayer(p, [skipped(player[p]) EXCEPT !.lastOp = "skipToNext"])

\* handleEnded belongs to the effect of the first render, whose state.isPreview
\* is the initial true: it always calls skipToNext
handleEnded(p) ==
  LET r == player[p] IN
  /\ ~r.paused
  /\ Promises(r) = 0
  /\ r.currentTime = 1
  /\ SetPlayer(p, [skipped(r) EXCEPT !.lastOp = "ended"])

\* the body of voteUp past its guard
votedUp(r) ==
  [loaded([r EXCEPT !.refArmed = FALSE], r.currentTrack, FALSE) EXCEPT !.hasVoted = TRUE]

\* a voteUp without the test of hasVoted
VoteUp_again(p) ==
  LET r == player[p] IN
  IF r.currentTrack = Null
  THEN SetPlayer(p, [r EXCEPT !.lastOp = "voteUp"])
  ELSE SetPlayer(p, [votedUp(r) EXCEPT !.lastOp = "voteUp"])

VoteUp(p) ==
  LET r == player[p] IN
  IF r.currentTrack = Null \/ r.hasVoted
  THEN SetPlayer(p, [r EXCEPT !.lastOp = "voteUp"])
  ELSE SetPlayer(p, [votedUp(r) EXCEPT !.lastOp = "voteUp"])

\* a voteDown that records the vote and leaves the session as it is
VoteDown_recorded(p) ==
  LET r == player[p] IN
  IF r.hasVoted
  THEN SetPlayer(p, [r EXCEPT !.lastOp = "voteDown"])
  ELSE SetPlayer(p, [r EXCEPT !.hasVoted = TRUE, !.lastOp = "voteDown"])

VoteDown(p) ==
  LET r == player[p] IN
  IF r.hasVoted
  THEN SetPlayer(p, [r EXCEPT !.lastOp = "voteDown"])
  ELSE SetPlayer(p, [skipped(r) EXCEPT !.lastOp = "voteDown"])

\* ----------------------------------------------------------------- TrackCard
\* A card of browser c shows the track `card`; its onVote prop, when given
\* (wired), is voteTrack of useMusic.
\* const [voting, setVoting]: true from setVoting(true) to the finally
voting(c, card) == \E k \in Pending : k.client = c /\ k.op = "vote" /\ k.trackId = card

Toast(c, t) == toast' = [toast EXCEPT ![c] = t]

\* handleVote without its test of the placeholder id
handleVote_unguarded(c, card, voteType, wired) ==
  IF voting(c, card)
  THEN UNCHANGED vars
  ELSE IF ~wired
  THEN Toast(c, "voted") /\ UNCHANGED <<sessionVars, player, trackDocs, tracks, calls>>
  ELSE \/ VoteRejected(c, card) /\ Toast(c, "failed")
       \/ VoteCall(c, card, voteType) /\ UNCHANGED toast

handleVote(c, card, voteType, wired) ==
  IF isPlaceholder(card)
  THEN Toast(c, "placeholder") /\ UNCHANGED <<sessionVars, player, trackDocs, tracks, calls>>
  ELSE IF voting(c, card)
  THEN UNCHANGED vars
  ELSE IF ~wired
  THEN Toast(c, "voted") /\ UNCHANGED <<sessionVars, player, trackDocs, tracks, calls>>
  ELSE \/ VoteRejected(c, card) /\ Toast(c, "failed")
       \/ VoteCall(c, card, voteType) /\ UNCHANGED toast

\* await onVote(...) returned: toast 'Voted up!' / 'Voted down!'
handleVoteOk(k) == VoteOk(k) /\ Toast(k.client, "voted")

\* catch: toast 'Vote failed'
handleVoteFail(k) == VoteFail(k) /\ Toast(k.client, "failed")

\* the cards whose players are modelled are those of the local browser
handlePlayPause(card, isCurrentTrack) ==
  IF isPlaceholder(card)
  THEN Toast(LocalClient, "noPreview") /\ UNCHANGED <<sessionVars, player, trackDocs, tracks, calls>>
  ELSE /\ IF isCurrentTrack THEN TogglePlayPause(card) ELSE LoadTrack(card, card, TRUE)
       /\ UNCHANGED toast

\* ------------------------------------------------------------------- next
Next ==
  \/ FirstReportNull
  \/ \E p \in Principals : SignIn(p)
  \/ SignOut
  \/ \E h \in handlers : FetchOk(h)
  \/ \E h \in handlers, code \in ErrCodes : FetchFail(h, code)
  \/ \E h \in handlers : RetryTimer(h)
  \/ \E h \in handlers : MigrateOk(h)
  \/ \E h \in handlers : MigrateFail(h)
  \/ \E h \in handlers : CreateOk(h)
  \/ \E h \in handlers : CreateFail(h)
  \/ AuthTimeout
  \/ PageLoadingTimeout

Spec == Init /\ [][Next]_vars

\* the timers of the browser fire once they are due
SpecLive ==
  Init /\ [][Next]_vars /\ WF_vars(AuthTimeout) /\ WF_vars(PageLoadingTimeout)

\* ------------------------------------------- profile setup and the tutorial
\* the listener together with the operations of the setup form and of the
\* onboarding tutorial
NextProfile ==
  \/ Next
  \/ CompleteSetup("b")
  \/ SkipSetup
  \/ CompleteOnboarding
  \/ ResetOnboarding
  \/ UpdateOk
  \/ UpdateFail

SpecProfile == Init /\ [][NextProfile]_vars

\* one principal only: nobody but A uses this browser
NextSolo ==
  \/ FirstReportNull
  \/ SignIn("A")
  \/ SignOut
  \/ \E h \in handlers : FetchOk(h)
  \/ \E h \in handlers, code \in ErrCodes : FetchFail(h, code)
  \/ \E h \in handlers : RetryTimer(h)
  \/ \E h \in handlers : MigrateOk(h)
  \/ \E h \in handlers : MigrateFail(h)
  \/ \E h \in handlers : CreateOk(h)
  \/ \E h \in handlers : CreateFail(h)
  \/ AuthTimeout
  \/ PageLoadingTimeout
  \/ CompleteSetup("b")
  \/ SkipSetup
  \/ CompleteOnboarding
  \/ ResetOnboarding
  \/ UpdateOk
  \/ UpdateFail

SpecSolo == Init /\ [][NextSolo]_vars

\* ------------------------------------------------------ the Retry button
\* the listener for one principal, with the page reloaded from its error screen
NextRetry ==
  \/ FirstReportNull
  \/ SignIn("A")
  \/ SessionRestored
  \/ SignOut
  \/ \E h \in handlers : FetchOk(h)
  \/ \E h \in handlers, code \in ErrCodes : FetchFail(h, code)
  \/ \E h \in handlers : RetryTimer(h)
  \/ \E h \in handlers : MigrateOk(h)
  \/ \E h \in handlers : MigrateFail(h)
  \/ \E h \in handlers : CreateOk(h)
  \/ \E h \in handlers : CreateFail(h)
  \/ AuthTimeout
  \/ PageLoadingTimeout
  \/ Retry

SpecRetry == Init /\ [][NextRetry]_vars

\* ------------------------------------------------ sign-up and Google flows
\* B has no account yet: it signs up, or signs in with Google
InitSignUp == InitWith({"A"})

NextSignUp ==
  \/ Next
  \/ \E p \in Principals, t \in UserTypes : SignUp(p, t)
  \/ \E p \in Principals : GoogleSignIn(p)
  \/ \E c \in creators : GoogleGet(c)
  \/ \E c \in creators : CreatorSet(c)
  \/ \E c \in creators : CreatorFail(c)

SpecSignUp == InitSignUp /\ [][NextSignUp]_vars

\* ------------------------------------------------- the catalog and its votes
\* the session after A, fully set up, has signed in and the profile is loaded
SignedInSession ==
  /\ store = [p \in Principals |->
                IF p = "A" THEN Doc("artist", "b", "true", "true") ELSE Absent]
  /\ accounts = {"A", "B"}
  /\ authUser = "A"
  /\ reported = TRUE
  /\ user = "A"
  /\ userProfile = ProfileFromDoc("A", Doc("artist", "b", "true", "true"))
  /\ loading = FALSE
  /\ profileSetupComplete = TRUE
  /\ error = NoError
  /\ authTimer = FALSE
  /\ loadingTimeout = FALSE
  /\ showOnboarding = FALSE
  /\ lsOnboarded = FALSE
  /\ handlers = {}
  /\ started = 1
  /\ creators = {}
  /\ upd = NoUpdate
  /\ reloads = 0

\* the session after the gateway has reported that nobody is signed in
SignedOutSession ==
  /\ store = [p \in Principals |->
                IF p = "A" THEN Doc("artist", "b", "true", "true") ELSE Absent]
  /\ accounts = {"A", "B"}
  /\ authUser = Null
  /\ reported = TRUE
  /\ user = Null
  /\ userProfile = NullProfile
  /\ loading = FALSE
  /\ profileSetupComplete = FALSE
  /\ error = NoError
  /\ authTimer = FALSE
  /\ loadingTimeout = FALSE
  /\ showOnboarding = TRUE
  /\ lsOnboarded = FALSE
  /\ handlers = {}
  /\ started = 0
  /\ creators = {}
  /\ upd = NoUpdate
  /\ reloads = 0

\* votes a track has received
Votes(id) ==
  IF trackDocs[id].exists THEN trackDocs[id].upvotes + trackDocs[id].downvotes
  ELSE 0

RECURSIVE SumVotes(_)
SumVotes(ids) ==
  IF ids = {} THEN 0
  ELSE LET id == CHOOSE i \in ids : TRUE
       IN  Votes(id) + SumVotes(ids \ {id})

\* votes applied or in flight
VotesCast ==
  SumVotes(TrackIds)
  + BagCardinality([k \in {j \in Pending : j.op = "vote"} |-> calls[k]])

\* ids a vote is asked for: the documents, and one of the placeholders
VotedIds == TrackIds \cup {"placeholder-1"}

\* an empty catalog; the two browsers upload, fetch and vote
InitTracks ==
  /\ SignedInSession \/ SignedOutSession
  /\ trackDocs = [i \in TrackIds |-> NoTrack]
  /\ tracks = [c \in Clients |-> <<>>]
  /\ calls = NoCalls
  /\ toast = NoToasts
  /\ player = NoPlayback

NextTracks ==
  \/ \E c \in Clients : UploadOk(c) /\ UNCHANGED toast
  \/ \E c \in Clients : FetchTracksCall(c) /\ UNCHANGED toast
  \/ \E k \in Pending : FetchTracksOk(k) /\ UNCHANGED toast
  \/ \E k \in Pending : FetchTracksFail(k) /\ UNCHANGED toast
  \/ \E c \in Clients, trackId \in VotedIds, voteType \in VoteTypes :
       VotesCast < MaxVotes /\ VoteCall(c, trackId, voteType) /\ UNCHANGED toast
  \/ \E k \in Pending : VoteOk(k) /\ UNCHANGED toast
  \/ \E k \in Pending : VoteFail(k) /\ UNCHANGED toast

SpecTracks == InitTracks /\ [][NextTracks]_vars

\* ------------------------------------------------ the heat score function
\* one track with any counters up to MaxCount and the heat score of these
\* counters, fetched by c1, which votes on it one vote after the other
InitHeat ==
  /\ SignedInSession
  /\ \E upvotes \in 0..MaxCount, downvotes \in 0..MaxCount :
       /\ upvotes + downvotes <= MaxCount
       /\ trackDocs =
            [i \in TrackIds |->
               IF i = IdOrder[1]
               THEN TrackDoc(upvotes, downvotes,
                             calculateHeatScore(upvotes, downvotes), 0)
               ELSE NoTrack]
       /\ tracks =
            [c \in Clients |->
               IF c = LocalClient
               THEN <<MusicTrack(IdOrder[1], upvotes, downvotes,
                                 calculateHeatScore(upvotes, downvotes))>>
               ELSE <<>>]
  /\ calls = NoCalls
  /\ toast = NoToasts
  /\ player = NoPlayback

NextHeat ==
  \/ \E voteType \in VoteTypes :
       /\ calls = NoCalls
       /\ Votes(IdOrder[1]) < MaxCount
       /\ VoteCall(LocalClient, IdOrder[1], voteType)
       /\ UNCHANGED toast
  \/ \E k \in Pending : VoteOk(k) /\ UNCHANGED toast
  \/ \E k \in Pending : VoteFail(k) /\ UNCHANGED toast

SpecHeat == InitHeat /\ [][NextHeat]_vars

\* Two browsers that have both fetched t1 with the same counters and each
\* cast one vote on it (again after a failed write), in any interleaving.
HoldsSnapshot(c) ==
  LET track == Find(tracks[c], IdOrder[1])
  IN  track.upvotes + track.downvotes =
        Votes(IdOrder[1]) - trackDocs[IdOrder[1]].updatedAt

InitRace ==
  /\ SignedInSession
  /\ \E upvotes \in 0..MaxCount, downvotes \in 0..MaxCount :
       /\ upvotes + downvotes <= MaxCount
       /\ trackDocs =
            [i \in TrackIds |->
               IF i = IdOrder[1]
               THEN TrackDoc(upvotes, downvotes,
                             calculateHeatScore(upvotes, downvotes), 0)
               ELSE NoTrack]
       /\ tracks =
            [c \in Clients |->
               <<MusicTrack(IdOrder[1], upvotes, downvotes,
                            calculateHeatScore(upvotes, downvotes))>>]
  /\ calls = NoCalls
  /\ toast = NoToasts
  /\ player = NoPlayback

NextRace ==
  \/ \E c \in Clients, voteType \in VoteTypes :
       /\ HoldsSnapshot(c)
       /\ InFlight(c) = 0
       /\ VoteCall(c, IdOrder[1], voteType)
       /\ UNCHANGED toast
  \/ \E k \in Pending : VoteOk(k) /\ UNCHANGED toast
  \/ \E k \in Pending : VoteFail(k) /\ UNCHANGED toast

SpecRace == InitRace /\ [][NextRace]_vars

\* One player and every operation the hook returns, called in any order with
\* any track, together with the promises, timeouts and events of its audio
\* element.
ThePlayer == "t1"
Loadable == {"t1", "t2"}

InitPlayer ==
  /\ SignedInSession
  /\ trackDocs = [i \in TrackIds |-> NoTrack]
  /\ tracks = [c \in Clients |-> <<>>]
  /\ calls = NoCalls
  /\ toast = NoToasts
  /\ player = NoPlayback

NextPlayer ==
  \/ \E track \in Loadable, isPreview \in BOOLEAN :
       LoadTrack(ThePlayer, track, isPreview) /\ UNCHANGED toast
  \/ Play(ThePlayer) /\ UNCHANGED toast
  \/ Pause(ThePlayer) /\ UNCHANGED toast
  \/ TogglePlayPause(ThePlayer) /\ UNCHANGED toast
  \/ VoteUp(ThePlayer) /\ UNCHANGED toast
  \/ VoteDown(ThePlayer) /\ UNCHANGED toast
  \/ SkipToNext(ThePlayer) /\ UNCHANGED toast
  \/ \E armed \in BOOLEAN : PlayResolved(ThePlayer, armed) /\ UNCHANGED toast
  \/ \E armed \in BOOLEAN : PlayRejected(ThePlayer, armed) /\ UNCHANGED toast
  \/ \E fromRef \in BOOLEAN : PreviewTimeout(ThePlayer, fromRef) /\ UNCHANGED toast
  \/ TimeUpdate(ThePlayer) /\ UNCHANGED toast
  \/ handleEnded(ThePlayer) /\ UNCHANGED toast

SpecPlayer == InitPlayer /\ [][NextPlayer]_vars

\* A dashboard of the local browser showing the cards of t1 and t2 and of a
\* placeholder: the play buttons of the cards and what follows from them.
InitDashboard ==
  /\ SignedInSession
  /\ trackDocs = [i \in TrackIds |-> NoTrack]
  /\ tracks = [c \in Clients |-> <<>>]
  /\ calls = NoCalls
  /\ toast = NoToasts
  /\ player = NoPlayback

NextDashboard ==
  \/ \E card \in Cards, isCurrentTrack \in BOOLEAN :
       handlePlayPause(card, isCurrentTrack)
  \/ \E card \in Cards, armed \in BOOLEAN :
       PlayResolved(card, armed) /\ UNCHANGED toast
  \/ \E card \in Cards, armed \in BOOLEAN :
       PlayRejected(card, armed) /\ UNCHANGED toast
  \/ \E card \in Cards, fromRef \in BOOLEAN :
       PreviewTimeout(card, fromRef) /\ UNCHANGED toast
  \/ \E card \in Cards : TimeUpdate(card) /\ UNCHANGED toast
  \/ \E card \in Cards : handleEnded(card) /\ UNCHANGED toast

SpecDashboard == InitDashboard /\ [][NextDashboard]_vars

\* The cards of the local browser over a catalog of one uploaded track: either
\* the signed-in user uploaded it after a fetch of the empty catalog, or the
\* visitor fetched the empty catalog and the other browser uploaded it since.
\* The cards vote (with or without an onVote prop) and play; the card of t2
\* shows a track the list does not have.
CardsShown == {"t1", "placeholder-1"}

InitCard ==
  /\ SignedInSession \/ SignedOutSession
  /\ trackDocs = [i \in TrackIds |-> NewTrackDoc]
  /\ tracks = [c \in Clients |->
               IF c # LocalClient THEN <<>>
               ELSE IF user = Null THEN getPlaceholderTracks
               ELSE <<MusicTrack(IdOrder[1], 0, 0, 30)>> \o getPlaceholderTracks]
  /\ calls = NoCalls
  /\ toast = NoToasts
  /\ player = NoPlayback

NextCard ==
  \/ \E card \in Cards, voteType \in VoteTypes, wired \in BOOLEAN :
       /\ VotesCast < MaxVotes
       /\ handleVote(LocalClient, card, voteType, wired)
  \/ \E k \in Pending : handleVoteOk(k)
  \/ \E k \in Pending : handleVoteFail(k)
  \/ \E card \in CardsShown, isCurrentTrack \in BOOLEAN :
       handlePlayPause(card, isCurrentTrack)
  \/ \E card \in CardsShown, armed \in BOOLEAN :
       PlayResolved(card, armed) /\ UNCHANGED toast
  \/ \E card \in CardsShown, armed \in BOOLEAN :
       PlayRejected(card, armed) /\ UNCHANGED toast
  \/ \E card \in CardsShown, fromRef \in BOOLEAN :
       PreviewTimeout(card, fromRef) /\ UNCHANGED toast
  \/ \E card \in CardsShown : TimeUpdate(card) /\ UNCHANGED toast
  \/ \E card \in CardsShown : handleEnded(card) /\ UNCHANGED toast

SpecCard == InitCard /\ [][NextCard]_vars

\* =========================================================== properties

\* the screen the flags of a loaded profile are meant to lead to
Routed(setupComplete, onboarded) ==
  IF ~setupComplete THEN "ProfileSetupRequired"
  ELSE IF ~onboarded THEN "OnboardingRequired"
  ELSE "Ready"

\* the invocation h has returned / is still running after the step
Returned(h) == \A g \in handlers' : g.id # h.id
Running(h, pc) == \E g \in handlers' : g.id = h.id /\ g.pc = pc

\* C1: the dashboard is shown only for a signed-in principal whose loaded
\* profile has setupComplete and onboarded both true
C1_Gate ==
  Screen = "Ready" =>
    /\ user # Null
    /\ userProfile # NullProfile
    /\ profileSetupComplete
    /\ userProfile.ob

\* C1: a fetch of an existing, fully migrated document for the current
\* principal routes on setupComplete / onboarded, whatever the role
C1_Route ==
  \A h \in handlers :
    ( /\ FetchOk(h)
      /\ store[h.uid].exists
      /\ ~NeedsUpdate(store[h.uid])
      /\ h.uid = user
      /\ ~loadingTimeout
      /\ error = NoError )
    => Screen' = Routed(Truthy(store[h.uid].sc), Truthy(store[h.uid].ob))

\* C1: dashboard gating, both sentences of the claim
C1_DashboardGating == []C1_Gate /\ [][C1_Route]_vars

\* C2: once the gateway has reported and its latest principal is null, the
\* screen is the auth forms, the profile cache is empty, the setup flag is
\* clear and no error is shown, whatever earlier invocations do later
C2_NullPrincipalIsUnauthenticated ==
  (reported /\ authUser = Null) =>
    /\ Screen = "Unauthenticated"
    /\ userProfile = NullProfile
    /\ ~profileSetupComplete
    /\ error = NoError

\* C3: the cached profile belongs to the current principal
C3_CacheOfCurrentPrincipal ==
  (user # Null /\ userProfile # NullProfile) => userProfile.uid = user

\* C3: an invocation issues its create or migration write only while its own
\* principal, or nobody, is signed in
C3_WriteForCurrentPrincipal ==
  \A h \in handlers :
    (FetchOk(h) /\ (Running(h, "create") \/ Running(h, "migrate")))
    => authUser \in {Null, h.uid}

\* C3: scenario F, nothing of an earlier principal reaches the store or the
\* cache once another principal has signed in
C3_NoLateWriteForOldPrincipal ==
  []C3_CacheOfCurrentPrincipal /\ [][C3_WriteForCurrentPrincipal]_vars

\* C4: at most one invocation of the principal-change handler is performing
\* or awaiting profile fetches
C4_OneRetryLoopInFlight == Cardinality(handlers) <= 1

\* C5: a document that exists is only patched: its role and display name are
\* never replaced by another creator's
C5_ProfileNeverRecreated ==
  [][\A p \in Principals :
       store[p].exists =>
         /\ store'[p].exists
         /\ store'[p].userType = store[p].userType
         /\ store'[p].displayName = store[p].displayName]_vars

\* a step keeps what is already true of the completion flags of every
\* stored document
StoreFlagsKept ==
  \A p \in Principals :
    (store[p].exists /\ store'[p].exists) =>
      /\ (store[p].sc = "true" => store'[p].sc = "true")
      /\ (store[p].ob = "true" => store'[p].ob = "true")

\* a step keeps what is already true of the local flags while the principal
\* stays the same
LocalFlagsKept ==
  (user # Null /\ user' = user) =>
    /\ (profileSetupComplete => profileSetupComplete')
    /\ ((userProfile # NullProfile /\ userProfile.ob) =>
          (userProfile' # NullProfile /\ userProfile'.ob))

\* C6: no step changes setupComplete or onboarded from true to false, in the
\* store or in local state, and the dashboard never falls back to the setup
\* screen for the same principal
C6_FlagsMonotonic ==
  [][/\ StoreFlagsKept
     /\ LocalFlagsKept
     /\ ((Screen = "Ready" /\ user' = user) =>
           Screen' # "ProfileSetupRequired")]_vars

\* C7: the profile created for a principal that has none is a fan with
\* setupComplete true and onboarded false, and the tutorial is the next screen
C7_MinimalProfileRouting ==
  [][\A h \in handlers :
       CreateOk(h) =>
         /\ store'[h.uid].userType = "fan"
         /\ store'[h.uid].sc = "true"
         /\ store'[h.uid].ob = "false"
         /\ ((h.uid = user /\ ~loadingTimeout /\ error = NoError) =>
               Screen' = "OnboardingRequired")]_vars

\* the retry bookkeeping of every invocation in flight: at most two failed
\* attempts behind it, and a wait of attempt x 1 s after failure 1 or 2 only
C8_Budget ==
  \A h \in handlers :
    /\ h.retryCount <= 2
    /\ (h.pc = "wait" =>
          (h.retryCount \in {1, 2} /\ h.waitMs = h.retryCount * 1000))
    /\ (h.pc # "wait" => h.waitMs = 0)

\* a failed attempt: the third ends the invocation with the error screen and
\* an empty cache, an earlier one changes neither the error, the cache nor
\* the screen and leads to the wait
C8_Failure ==
  \A h \in handlers : \A code \in ErrCodes :
    FetchFail(h, code) =>
      IF h.retryCount = 2
        THEN /\ Returned(h)
             /\ error' \in {"connection", "permission", "load-failed"}
             /\ userProfile' = NullProfile
             /\ ~profileSetupComplete'
             /\ Screen' = "AuthError"
        ELSE /\ Running(h, "wait")
             /\ error' = error
             /\ userProfile' = userProfile
             /\ Screen' = Screen

\* a successful attempt surfaces no error and is the last of its invocation
C8_Success ==
  \A h \in handlers :
    FetchOk(h) =>
      /\ error' = error
      /\ ~Running(h, "fetch")
      /\ ~Running(h, "wait")

\* C8: at most three fetch attempts per invocation, waits of 1 s and 2 s
\* after the first two failures, no error before the third failure, the
\* error screen with an empty cache after it, and no error on a success
C8_RetryBudget ==
  []C8_Budget /\ [][C8_Failure]_vars /\ [][C8_Success]_vars

\* the third attempt of an invocation has failed on a connection error
C8_Witness ==
  /\ error = "connection"
  /\ user # Null
  /\ userProfile = NullProfile
  /\ handlers = {}

\* C9: a fetch that fails on a permission error ends the invocation at once
\* with the error screen
C9_PermissionErrorTerminal ==
  [][\A h \in handlers :
       FetchFail(h, "permission-denied") =>
         (Returned(h) /\ error' = "permission")]_vars

\* C10: when the migration of the current principal's document ends, the
\* state follows the defaults: onboarded true for a document that lacked it,
\* setupComplete by role and bio for a document that lacked it
C10_MigrationDefaultsInState ==
  [][\A h \in handlers :
       ( /\ MigrateOk(h) \/ MigrateFail(h)
         /\ h.uid = user
         /\ userProfile # NullProfile
         /\ userProfile.uid = h.uid )
       => /\ (h.patch.ob = "true" =>
                (userProfile'.ob /\ ~showOnboarding'))
          /\ (h.patch.sc # "none" =>
                profileSetupComplete' = Truthy(h.patch.sc))]_vars

\* C11: when the migration write of the current principal's document fails,
\* the screen is the one a successful write would have led to, computed from
\* the defaulted flags, and no error is set
C11_MigrationFailureSameOutcome ==
  [][\A h \in handlers :
       ( /\ MigrateFail(h)
         /\ h.uid = user
         /\ userProfile # NullProfile
         /\ userProfile.uid = h.uid )
       => /\ error' = error
          /\ Screen' =
               ScreenOf(FALSE, onboardingLoading, loadingTimeout, error, user,
                        userProfile,
                        IF h.patch.sc # "none" THEN Truthy(h.patch.sc)
                        ELSE profileSetupComplete,
                        showOnboarding)]_vars

\* a fetch of a document that has both flags issues no migration write, ends
\* the invocation and loads the flags as stored
C12_NoWriteWhenMigrated ==
  \A h \in handlers :
    (FetchOk(h) /\ store[h.uid].exists /\ ~NeedsUpdate(store[h.uid])) =>
      /\ Returned(h)
      /\ store' = store
      /\ profileSetupComplete' = Truthy(store[h.uid].sc)
      /\ userProfile'.sc = Truthy(store[h.uid].sc)
      /\ userProfile'.ob = Truthy(store[h.uid].ob)

\* a successful migration write leaves a document that has both flags
C12_MigratedAfterWrite ==
  \A h \in handlers : MigrateOk(h) => ~NeedsUpdate(store'[h.uid])

\* an invocation waits for a migration write only if the document it fetched
\* lacked a flag
C12_WriteOnlyWhenNeeded ==
  \A h \in handlers :
    h.pc = "migrate" => (h.patch.sc # "none" \/ h.patch.ob # "none")

\* C12: migrating is idempotent: a document with both flags is fetched
\* without a write and with its flags as stored, and a migrated document has
\* both flags, so that a second fetch writes nothing
C12_MigrationIdempotent ==
  /\ []C12_WriteOnlyWhenNeeded
  /\ [][C12_NoWriteWhenMigrated]_vars
  /\ [][C12_MigratedAfterWrite]_vars

\* a legacy fan document has been migrated and then fetched again, in a
\* second sign-in, with nothing left in flight
C12_Witness ==
  /\ store["A"].exists
  /\ store["A"].userType = "fan"
  /\ store["A"].sc = "true"
  /\ store["A"].ob = "true"
  /\ started = 2
  /\ handlers = {}
  /\ user = "A"
  /\ userProfile # NullProfile
  /\ userProfile.uid = "A"
  /\ userProfile.ob

\* the screen as the page computes it from the principal, the profile and
\* the fetch error alone: no timeout, flags as the profile carries them
PureScreen(usr, prof, err) ==
  ScreenOf(FALSE, FALSE, FALSE, err, usr, prof,
           prof # NullProfile /\ prof.sc, OnboardingEffect(prof))

\* C13: once loading is over and the cache holds the principal's stored
\* profile, the screen is determined by the principal, that profile and the
\* fetch error, whatever happened before
C13_ScreenIsPure ==
  ( /\ ~loading
    /\ user # Null
    /\ store[user].exists
    /\ userProfile = ProfileFromDoc(user, store[user]) )
  => Screen = PureScreen(user, userProfile, error)

\* when the listener has not reported and the 3 s timer has fired, the auth
\* forms are shown
C14_TimeoutFallback ==
  (~reported /\ ~authTimer) => Screen = "Unauthenticated"

\* C14: the loading screen is left for good in every execution in which the
\* timers fire, and the auth forms are what is shown when the timer fires
\* before the listener has reported
C14_LoadingEventuallyLeft ==
  []C14_TimeoutFallback /\ <>[](Screen # "Loading")

\* the 3 s timer fired with no report from the gateway
C14_Witness ==
  /\ ~reported
  /\ ~authTimer
  /\ ~loading
  /\ Screen = "Unauthenticated"

\* the call of completeOnboarding ends, by its write succeeding or failing
C15_Ends(step) ==
  upd.active /\ upd.caller = "completeOnboarding" /\ step

\* C15: completeOnboarding ends with the tutorial closed and no error set;
\* its successful write stores onboarded = true, a failed one records the
\* completion in local storage, and the tutorial screen gives way to the
\* dashboard in both cases
C15_CompleteOnboardingLeavesTutorial ==
  [][/\ C15_Ends(UpdateOk) => store'[upd.uid].ob = "true"
     /\ C15_Ends(UpdateFail) => (lsOnboarded' /\ store' = store)
     /\ C15_Ends(UpdateOk \/ UpdateFail) =>
          /\ ~showOnboarding'
          /\ error' = error
          /\ Screen' # "OnboardingRequired"
          /\ (Screen = "OnboardingRequired" => Screen' = "Ready")]_vars

\* the write of completeOnboarding failed: the completion is in local storage
\* only and the dashboard is shown
C15_Witness ==
  /\ lsOnboarded
  /\ ~showOnboarding
  /\ Screen = "Ready"
  /\ userProfile.userType = "artist"
  /\ ~userProfile.ob
  /\ store[user].ob # "true"

\* C16: the write of completeSetup or skipSetup, made from the setup screen
\* for the current principal, stores setupComplete = true and leads to the
\* tutorial when the profile's onboarded is false and to the dashboard when
\* it is true
C16_SetupLeadsOn ==
  [][( /\ upd.active
       /\ upd.caller \in {"completeSetup", "skipSetup"}
       /\ upd.uid = user
       /\ Screen = "ProfileSetupRequired"
       /\ UpdateOk )
     => /\ store'[user].sc = "true"
        /\ Screen' = IF store'[user].ob = "true" THEN "Ready"
                     ELSE "OnboardingRequired"]_vars

\* the Retry button leaves the page as a first render: no invocation, no
\* error, the loading screen, the gateway still to report
C17_Restart ==
  Retry =>
    /\ ~reported'
    /\ handlers' = {}
    /\ error' = NoError
    /\ Screen' = "Loading"

\* the restored session starts one invocation with no failed attempt behind it
C17_FreshBudget ==
  SessionRestored =>
    \E g \in handlers' :
      /\ handlers' = {g}
      /\ g.uid = authUser
      /\ g.pc = "fetch"
      /\ g.retryCount = 0

\* while the only invocation of a reloaded page is running, no error is shown
C17_NoErrorMeanwhile ==
  (reloads > 0 /\ started = 1 /\ handlers # {}) => error = NoError

\* the only invocation of a reloaded page ends after a first fetch that found
\* the document: no error, and the screen the profile leads to
C17_FirstFetchSucceeds ==
  \A h \in handlers :
    ( /\ reloads > 0
      /\ started = 1
      /\ h.retryCount = 0
      /\ h.uid = user
      /\ ~loadingTimeout
      /\ store[h.uid].exists
      /\ FetchOk(h) \/ MigrateOk(h) \/ MigrateFail(h)
      /\ Returned(h) )
    => /\ error' = NoError
       /\ Screen' \in {"ProfileSetupRequired", "OnboardingRequired", "Ready"}

RoundedHeat(upvotes, downvotes) ==
  LET total == upvotes + downvotes
      twice == 2 * (30 * total + 80 * upvotes)
  IN  IF total = 0 THEN 30
      ELSE CHOOSE n \in 0..200 :
             2 * total * n - total <= twice /\ twice < 2 * total * n + total

\* the cases the specification names
NamedHeat(upvotes, downvotes, heatScore) ==
  /\ (upvotes + downvotes = 0) => heatScore = 30
  /\ (upvotes = 3 /\ downvotes = 1) => heatScore = 90
  /\ (upvotes > 0 /\ downvotes = 0) => heatScore = 110
  /\ (upvotes = 0 /\ downvotes > 0) => heatScore = 30

\* C18: calculateHeatScore(upvotes, downvotes) is 30 for no votes and
\* otherwise round(30 + 80 * upvotes / (upvotes + downvotes)) with a half
\* rounded up: every heat score computed from counters up to MaxCount, for a
\* stored track, for the client's list and for a vote on its way, has this
\* value; (3,1) gives 90, (n,0) gives 110 and (0,n) gives 30
C18_HeatScoreFunction ==
  /\ \A id \in Catalog :
       /\ trackDocs[id].heatScore =
            RoundedHeat(trackDocs[id].upvotes, trackDocs[id].downvotes)
       /\ NamedHeat(trackDocs[id].upvotes, trackDocs[id].downvotes,
                    trackDocs[id].heatScore)
  /\ \A n \in DOMAIN tracks[LocalClient] :
       LET t == tracks[LocalClient][n]
       IN  /\ t.heatScore = RoundedHeat(t.upvotes, t.downvotes)
           /\ NamedHeat(t.upvotes, t.downvotes, t.heatScore)
  /\ \A k \in Pending :
       k.op = "vote" =>
         /\ k.newHeatScore = RoundedHeat(k.newUpvotes, k.newDownvotes)
         /\ NamedHeat(k.newUpvotes, k.newDownvotes, k.newHeatScore)

\* a vote has been applied and its score lies on a half: 30 + 80/32 = 32.5
C18_Witness ==
  /\ calls = NoCalls
  /\ trackDocs[IdOrder[1]] = TrackDoc(1, 31, 33, 1)
  /\ tracks[LocalClient] = <<MusicTrack(IdOrder[1], 1, 31, 33)>>

\* ------------------------------------------------------------------ C19
InRange(heatScore) == heatScore \in 30..110

\* C19: after any uploads and votes of the clients, in any interleaving,
\* the heatScore of every track is an integer from 30 to 110, in the store
\* and in the local track list of every client
C19_HeatScoreRange ==
  /\ \A id \in Catalog : InRange(trackDocs[id].heatScore)
  /\ \A c \in Clients :
       \A n \in DOMAIN tracks[c] : InRange(tracks[c][n].heatScore)

\* both clients have voted on an uploaded track: the store has the two
\* votes, one client's list shows the score of its up vote alone and the
\* other's the score of its down vote alone
C19_Witness ==
  /\ calls = NoCalls
  /\ trackDocs[IdOrder[1]].exists
  /\ trackDocs[IdOrder[1]].upvotes = 1
  /\ trackDocs[IdOrder[1]].downvotes = 1
  /\ \E n \in DOMAIN tracks["c1"] :
       tracks["c1"][n] = MusicTrack(IdOrder[1], 1, 0, 110)
  /\ \E n \in DOMAIN tracks["c2"] :
       tracks["c2"][n] = MusicTrack(IdOrder[1], 0, 1, 30)

\* ------------------------------------------------------------------ C20
\* the store's part of a vote: the counter of the direction one up, the
\* other counter kept, one write of the document
CounterStep(k) ==
  LET old == trackDocs[k.trackId]
      new == trackDocs'[k.trackId]
  IN  /\ new.exists
      /\ new.upvotes = old.upvotes + (IF k.voteType = "up" THEN 1 ELSE 0)
      /\ new.downvotes = old.downvotes + (IF k.voteType = "down" THEN 1 ELSE 0)
      /\ new.updatedAt = old.updatedAt + 1
      /\ \A id \in TrackIds \ {k.trackId} : trackDocs'[id] = trackDocs[id]

\* the local list after the vote: the entry of the track carries the given
\* values, every other entry is the one it was
Mirrored(k, upvotes, downvotes, heatScore) ==
  LET old == tracks[k.client]
      new == tracks'[k.client]
  IN  /\ DOMAIN new = DOMAIN old
      /\ \A n \in DOMAIN old :
           new[n] = IF old[n].id = k.trackId
                    THEN MusicTrack(k.trackId, upvotes, downvotes, heatScore)
                    ELSE old[n]
      /\ \A c \in Clients \ {k.client} : tracks'[c] = tracks[c]

\* C20 as stated: a successful vote increments the counter of its direction
\* by one, sets the stored heatScore to the heat score of the counters now
\* stored, and replaces the local entry by one with these counters and this
\* heatScore, every other local track unchanged
C20_VoteEffect ==
  [][ \A k \in Pending :
        VoteOk(k) =>
          LET new == trackDocs'[k.trackId]
          IN  /\ CounterStep(k)
              /\ new.heatScore = calculateHeatScore(new.upvotes, new.downvotes)
              /\ Mirrored(k, new.upvotes, new.downvotes, new.heatScore) ]_vars

\* for a vote started by this step: its counters are those the client holds
\* for the track, the voted one incremented, and its heat score is theirs
C20_Snapshot ==
  \A k \in BagToSet(calls') :
    (k.op = "vote" /\ CopiesIn(k, calls') > CopiesIn(k, calls)) =>
      /\ \E n \in DOMAIN tracks[k.client] :
           /\ tracks[k.client][n].id = k.trackId
           /\ k.newUpvotes =
                tracks[k.client][n].upvotes + (IF k.voteType = "up" THEN 1 ELSE 0)
           /\ k.newDownvotes =
                tracks[k.client][n].downvotes
                + (IF k.voteType = "down" THEN 1 ELSE 0)
      /\ k.newHeatScore = calculateHeatScore(k.newUpvotes, k.newDownvotes)

\* for a vote whose write has succeeded: the stored counter one up, the
\* stored heatScore and the local entry those of the client's own counters
C20_Effect ==
  \A k \in Pending :
    VoteOk(k) =>
      LET new == trackDocs'[k.trackId]
      IN  /\ CounterStep(k)
          /\ new.heatScore = k.newHeatScore
          /\ Mirrored(k, k.newUpvotes, k.newDownvotes, k.newHeatScore)
          /\ (k.newUpvotes = new.upvotes /\ k.newDownvotes = new.downvotes) =>
               /\ new.heatScore = calculateHeatScore(new.upvotes, new.downvotes)
               /\ Mirrored(k, new.upvotes, new.downvotes, new.heatScore)

\* C20, amended: a successful vote increments the stored counter of its
\* direction by one in one write that leaves the other counter and the other
\* documents alone; the stored heatScore is the heat score of the counters
\* the client held for the track when it voted, the voted one incremented,
\* which are the stored counters when no other vote has been applied since
\* the client read them; the local entry gets these client-side counters and
\* this heatScore, every other local track unchanged
C20_VoteEffectOfSnapshot ==
  [][C20_Snapshot /\ C20_Effect]_vars

\* c1 has uploaded a track on top of the placeholders and voted it up: the
\* store and the entry have the vote, the placeholders are as they were
C20_Witness ==
  /\ calls = NoCalls
  /\ trackDocs[IdOrder[1]] = TrackDoc(1, 0, 110, 1)
  /\ tracks["c1"] = <<MusicTrack(IdOrder[1], 1, 0, 110)>> \o getPlaceholderTracks

\* ------------------------------------------------------------------- C21
\* C21: a failed vote changes nothing.  A vote call that ends without the store
\* having taken it (its write failed) leaves the local track list and the
\* lifecycle state as they were and shows the caller the failure; so does a
\* vote that is turned down before any call is made (no signed-in user, or an
\* id the local list does not have): the store, the list and the lifecycle
\* state stay as they were.
C21_WriteFailed(k) ==
  /\ k.op = "vote"
  /\ CopiesIn(k, calls') < CopiesIn(k, calls)
  /\ trackDocs' = trackDocs

C21_TurnedDown ==
  /\ calls' = calls
  /\ toast' # toast
  /\ toast'[LocalClient] = "failed"

C21_FailedVoteChangesNothing ==
  [][/\ \A k \in Pending :
          C21_WriteFailed(k) =>
            /\ tracks' = tracks
            /\ sessionVars' = sessionVars
            /\ toast'[k.client] = "failed"
     /\ C21_TurnedDown =>
          /\ tracks' = tracks
          /\ trackDocs' = trackDocs
          /\ sessionVars' = sessionVars]_vars

\* the signed-in user's vote has failed: the list and the document of t1 are
\* as uploaded
C21_Witness ==
  /\ user # Null
  /\ toast[LocalClient] = "failed"
  /\ calls = NoCalls
  /\ trackDocs[IdOrder[1]] = NewTrackDoc
  /\ tracks[LocalClient] = <<MusicTrack(IdOrder[1], 0, 0, 30)>> \o getPlaceholderTracks

\* ------------------------------------------------------------------- C22
\* C22: placeholder tracks reject voting and playback.  No vote call in flight
\* is for a placeholder, every placeholder in a list has the counters and the
\* heat score it was made with, and no player has a placeholder as its current
\* track or as the source of its audio element.
C22_PlaceholderOf(id) ==
  getPlaceholderTracks[CHOOSE i \in DOMAIN getPlaceholderTracks : getPlaceholderTracks[i].id = id]

C23_BothVoted ==
  /\ calls = NoCalls
  /\ trackDocs[IdOrder[1]].updatedAt = Cardinality(Clients)

C23_RaceOnScore ==
  C23_BothVoted =>
    LET doc == trackDocs[IdOrder[1]]
        upvotes == tracks["c1"][1].upvotes + tracks["c2"][1].upvotes - doc.upvotes
        downvotes == tracks["c1"][1].downvotes + tracks["c2"][1].downvotes - doc.downvotes
    IN  /\ upvotes >= 0
        /\ downvotes >= 0
        /\ doc.upvotes + doc.downvotes = upvotes + downvotes + 2
        /\ \A c \in Clients :
             /\ \/ tracks[c][1].upvotes = upvotes + 1 /\ tracks[c][1].downvotes = downvotes
                \/ tracks[c][1].upvotes = upvotes /\ tracks[c][1].downvotes = downvotes + 1
             /\ tracks[c][1].heatScore =
                  calculateHeatScore(tracks[c][1].upvotes, tracks[c][1].downvotes)
        /\ \E c \in Clients : doc.heatScore = tracks[c][1].heatScore

\* an up vote and a down vote on a new track: the counters are 1 and 1, whose
\* heat score is 70, and the stored score is that of the up vote alone
C23_Witness ==
  /\ C23_BothVoted
  /\ trackDocs[IdOrder[1]] = TrackDoc(1, 1, 110, 2)
  /\ trackDocs[IdOrder[1]].heatScore #
       calculateHeatScore(trackDocs[IdOrder[1]].upvotes, trackDocs[IdOrder[1]].downvotes)

\* ------------------------------------------------------------------- C24
\* C24: a playback session never has two preview timeouts pending at once:
\* whatever was called on a player, at most one 30-second timeout is armed.
C24_SinglePreviewTimer ==
  \A p \in Cards : Timeouts(player[p]) <= 1

\* ------------------------------------------------------------------- C25
\* C25: when the 30-second timeout of a preview that is playing and has no
\* vote runs, playback is paused, the session becomes idle (no current track)
\* and the advance-to-next signal has been given.
C25_PreviewPlaying(r) ==
  /\ r.currentTrack # Null
  /\ r.isPreview
  /\ ~r.hasVoted
  /\ ~r.paused

C25_CapExpiry ==
  [][\A p \in Cards :
       (/\ player'[p] # player[p]
        /\ player'[p].lastOp = "previewTimeout"
        /\ C25_PreviewPlaying(player[p]))
       => /\ player'[p].paused
          /\ player'[p].currentTrack = Null
          /\ player'[p].advanced]_vars

\* ------------------------------------------------------------------- C26
\* C26: a preview timeout is pending only while the session is playing a
\* preview: in every state a pending timeout implies a current track in
\* preview mode that is playing and has no vote.
C26_TimerOnlyWhilePreviewPlaying ==
  \A p \in Cards :
    Timeouts(player[p]) > 0 =>
      /\ player[p].currentTrack # Null
      /\ player[p].isPreview
      /\ ~player[p].paused
      /\ ~player[p].hasVoted

\* ------------------------------------------------------------------- C27
\* C27: an up-vote on a preview session without a vote leaves no preview
\* timeout pending, loads the fullUrl of the same track, sets mode full and
\* hasVoted, and keeps the current track; and no step that keeps the current
\* track and is not a loadTrack takes a full session back to preview.
C27_PreviewSession(r) ==
  /\ r.currentTrack # Null
  /\ r.isPreview
  /\ ~r.hasVoted

C27_UpVote ==
  [][\A p \in Cards :
       /\ (/\ player'[p] # player[p]
            /\ player'[p].lastOp = "voteUp"
            /\ C27_PreviewSession(player[p]))
          => /\ Timeouts(player'[p]) = 0
             /\ player'[p].src = SrcOf(player[p].currentTrack, FALSE)
             /\ ~player'[p].isPreview
             /\ player'[p].hasVoted
             /\ player'[p].currentTrack = player[p].currentTrack
       /\ (/\ player[p].currentTrack # Null
            /\ player'[p].currentTrack = player[p].currentTrack
            /\ player'[p].lastOp # "loadTrack"
            /\ ~player[p].isPreview)
          => ~player'[p].isPreview]_vars

\* ------------------------------------------------------------------- C28
\* C28: a down-vote on a preview session without a vote ends the session:
\* after it there is no current track, the audio element is paused at
\* position 0, the state is back at isPlaying=false, isPreview=true and
\* hasVoted=false, and skipToNext has run.
C28_DownVote ==
  [][\A p \in Cards :
       (/\ player'[p] # player[p]
        /\ player'[p].lastOp = "voteDown"
        /\ C27_PreviewSession(player[p]))
       => /\ player'[p].currentTrack = Null
          /\ player'[p].paused
          /\ player'[p].currentTime = 0
          /\ ~player'[p].isPlaying
          /\ player'[p].isPreview
          /\ ~player'[p].hasVoted
          /\ player'[p].advanced]_vars

\* the preview of t1 was voted down while it played with its timeout armed
C28_Witness ==
  /\ player[ThePlayer].lastOp = "voteDown"
  /\ player[ThePlayer].currentTrack = Null
  /\ player[ThePlayer].src = SrcOf("t1", TRUE)
  /\ player[ThePlayer].refArmed
  /\ player[ThePlayer].advanced

\* ------------------------------------------------------------------- C30
\* C30: loadTrack with its default mode makes a session with isPreview=true,
\* hasVoted=false, position 0 and isPlaying=false on a paused element, with
\* no play() promise outstanding and no timeout armed by it; the element
\* leaves paused only by play, and a timeout is armed only by the promise of
\* a play resolving.
C30_LoadStep(p) ==
  /\ player'[p] # player[p]
  /\ player'[p].lastOp = "loadTrack"
  /\ player'[p].src.url = "previewUrl"

C30_LoadTrackDefault ==
  [][\A p \in Cards :
       /\ C30_LoadStep(p) =>
            /\ player'[p].currentTrack = player'[p].src.id
            /\ player'[p].isPreview
            /\ ~player'[p].hasVoted
            /\ player'[p].currentTime = 0
            /\ ~player'[p].isPlaying
            /\ player'[p].paused
            /\ Promises(player'[p]) = 0
            /\ Timeouts(player'[p]) <= Timeouts(player[p])
       /\ (player[p].paused /\ ~player'[p].paused) => player'[p].lastOp = "play"
       /\ Timeouts(player'[p]) > Timeouts(player[p]) =>
            /\ player'[p].lastOp = "resolved"
            /\ ~player[p].paused]_vars

\* t2 has been loaded while a play() of t1 was outstanding, and nothing has
\* run since
C30_Witness ==
  /\ player[ThePlayer].lastOp = "loadTrack"
  /\ player[ThePlayer].currentTrack = "t2"
  /\ player[ThePlayer].src = SrcOf("t2", TRUE)
  /\ player[ThePlayer].error = "Click play to start listening"
  /\ player[ThePlayer].paused

\* ------------------------------------------------------------------- C29
\* C29: no two playback sessions are live at once: in every state at most one
\* player of the browser has a current track or an element that is not
\* paused.
C29_Live(p) == player[p].currentTrack # Null \/ ~player[p].paused

C29_OneSession ==
  Cardinality({p \in Cards : C29_Live(p)}) <= 1

\* ------------------------------------------------------------------- C31
\* C31: the 5 s fallback of the page never overrides a resolved session: when
\* a principal is signed in, its profile has been fetched into the cache and
\* loading is over without an error, the screen is ProfileSetupRequired,
\* OnboardingRequired or Ready, never the auth forms.
C31_Resolved ==
  /\ user # Null
  /\ userProfile # NullProfile
  /\ userProfile.uid = user
  /\ ~loading
  /\ error = NoError

C31_TimeoutNeverOverrides ==
  C31_Resolved => Screen \in {"ProfileSetupRequired", "OnboardingRequired", "Ready"}

\* ------------------------------------------------------------------- C32
\* C32: once a session is in full mode, no preview timeout armed earlier runs
\* and pauses it: no 30-second timeout ever runs on a player whose current
\* track is in full mode and whose element is playing.
C32_FullPlaying(r) ==
  /\ r.currentTrack # Null
  /\ ~r.isPreview
  /\ r.hasVoted
  /\ ~r.paused

C32_FullModeNotInterrupted ==
  [][\A p \in Cards :
       (player'[p] # player[p] /\ player'[p].lastOp = "previewTimeout")
       => ~C32_FullPlaying(player[p])]_vars

\* ------------------------------------------------------------------- C33
\* C33: the skip on 'ended' applies to preview sessions only: when a track in
\* full mode reaches its end, isPlaying becomes false and the position 0, the
\* current track and the mode are kept and skipToNext does not run.
C33_EndedInFullMode ==
  [][\A p \in Cards :
       (/\ player'[p] # player[p]
        /\ player'[p].lastOp = "ended"
        /\ ~player[p].isPreview)
       => /\ ~player'[p].isPlaying
          /\ player'[p].currentTime = 0
          /\ player'[p].currentTrack = player[p].currentTrack
          /\ ~player'[p].isPreview
          /\ player'[p].advanced = player[p].advanced]_vars

\* ------------------------------------------------------------------- C38
\* C38: voteUp does nothing when there is no current track or hasVoted is
\* true, and voteDown does nothing when hasVoted is true: the current track,
\* the mode, hasVoted, the position, the element and the timeouts are as they
\* were, so a vote after an up-vote neither reloads nor discards the session.
C38_Guarded(p) ==
  \/ /\ player'[p].lastOp = "voteUp"
     /\ player[p].currentTrack = Null \/ player[p].hasVoted
  \/ /\ player'[p].lastOp = "voteDown"
     /\ player[p].hasVoted

C38_VoteGuards ==
  [][\A p \in Cards :
       C38_Guarded(p) =>
         player'[p] = [player[p] EXCEPT !.lastOp = player'[p].lastOp]]_vars

\* the full-length track plays on after an up-vote and a later down-vote
C38_Witness ==
  /\ player[ThePlayer].lastOp = "voteDown"
  /\ player[ThePlayer].currentTrack = "t1"
  /\ player[ThePlayer].src = SrcOf("t1", FALSE)
  /\ player[ThePlayer].hasVoted
  /\ ~player[ThePlayer].isPreview
  /\ ~player[ThePlayer].paused
  /\ player[ThePlayer].currentTime = 1

\* ------------------------------------------------------------------- C35
\* C35: with one client voting on a track, one vote after the other, whenever
\* no vote is on its way the stored heatScore is the heat score function of
\* the stored counters, and the client's entry of the track has the upvotes,
\* downvotes and heatScore of the store.
C35_SequentialVotesAgree ==
  calls = NoCalls =>
    LET doc == trackDocs[IdOrder[1]]
    IN  /\ doc.heatScore = calculateHeatScore(doc.upvotes, doc.downvotes)
        /\ tracks[LocalClient] =
             <<MusicTrack(IdOrder[1], doc.upvotes, doc.downvotes, doc.heatScore)>>

\* an up vote and then a down vote on a new track: 1 and 1 and the score 70,
\* in the store and in the list
C35_Witness ==
  /\ calls = NoCalls
  /\ trackDocs[IdOrder[1]] = TrackDoc(1, 1, 70, 2)
  /\ tracks[LocalClient] = <<MusicTrack(IdOrder[1], 1, 1, 70)>>

\* ------------------------------------------------------------------- C39
\* C39: the heat score is monotone in the votes.  For the counters of the
\* stored track, with at least one vote an up vote more does not lower the
\* score and a down vote more does not raise it, and the first vote on a
\* track without votes gives 110 (up) or 30 (down); and every vote the store
\* takes moves the stored score accordingly.
C39_Function ==
  LET upvotes == trackDocs[IdOrder[1]].upvotes
      downvotes == trackDocs[IdOrder[1]].downvotes
      heatScore == calculateHeatScore(upvotes, downvotes)
  IN  IF upvotes + downvotes > 0
      THEN /\ calculateHeatScore(upvotes + 1, downvotes) >= heatScore
           /\ calculateHeatScore(upvotes, downvotes + 1) <= heatScore
      ELSE /\ heatScore = 30
           /\ calculateHeatScore(1, 0) = 110
           /\ calculateHeatScore(0, 1) = 30

C39_Step ==
  LET doc == trackDocs[IdOrder[1]]
      new == trackDocs'[IdOrder[1]]
  IN  /\ (new.upvotes = doc.upvotes + 1 /\ Votes(IdOrder[1]) > 0)
         => new.heatScore >= doc.heatScore
      /\ (new.downvotes = doc.downvotes + 1 /\ Votes(IdOrder[1]) > 0)
         => new.heatScore <= doc.heatScore
      /\ (new.upvotes = doc.upvotes + 1 /\ Votes(IdOrder[1]) = 0)
         => doc.heatScore = 30 /\ new.heatScore = 110
      /\ (new.downvotes = doc.downvotes + 1 /\ Votes(IdOrder[1]) = 0)
         => doc.heatScore = 30 /\ new.heatScore = 30

C39_HeatMonotone == []C39_Function /\ [][C39_Step]_vars

\* an up vote has taken the track from 1 and 1 (70) to 2 and 1 (83)
C39_Witness ==
  /\ calls = NoCalls
  /\ trackDocs[IdOrder[1]] = TrackDoc(2, 1, 83, 1)

\* ------------------------------------------------------------------- C34
\* C34: after completeOnboarding has returned for a principal, that principal
\* is not shown the tutorial again unless resetOnboarding is called.  Stated
\* for the return after a failed write, in a browser only A uses: while the
\* local storage flag written by the catch of completeOnboarding is set (a
\* resetOnboarding removes it), the screen is not the tutorial.
C34_TutorialNotShownAgain ==
  (lsOnboarded /\ user = "A" /\ ~upd.active) => Screen # "OnboardingRequired"

\* ------------------------------------------------------------------- C36
\* C36: updateUserProfile is all-or-nothing on the client.  A store write is
\* on its way only for the user who was signed in when it was called; and
\* when the call ends with the store as it was (the write failed), the cached
\* profile and profileSetupComplete are as they were, so that after a failed
\* completeSetup or skipSetup a page that showed the setup form still shows
\* it.
\* (a call has ended and the store does not hold what the write would have
\* put there: the write was not applied)
C36_WriteFailed ==
  /\ upd.active
  /\ ~upd'.active
  /\ store' = store
  /\ \/ ~store[upd.uid].exists
     \/ PatchDoc(store[upd.uid], upd.sc, upd.ob, upd.bio) # store[upd.uid]

C36_AllOrNothing ==
  [][/\ upd'.active => upd'.uid \in Principals
     /\ C36_WriteFailed =>
          /\ userProfile' = userProfile
          /\ profileSetupComplete' = profileSetupComplete
          /\ user' = user
          /\ error' = error
          /\ (upd.caller \in {"completeSetup", "skipSetup"}
               /\ Screen = "ProfileSetupRequired")
              => Screen' = "ProfileSetupRequired"]_vars

\* a write has failed (the local fallback flag is set by nothing else) and
\* the cached profile still agrees with the document that was not written
C36_Witness ==
  /\ ~upd.active
  /\ lsOnboarded
  /\ user = "A"
  /\ store["A"].exists
  /\ store["A"].ob # "true"
  /\ userProfile # NullProfile
  /\ userProfile.uid = "A"
  /\ ~userProfile.ob

\* ------------------------------------------------------------------- C37
\* every invocation in flight has at most two failed fetch attempts behind it
C37_Attempts == \A h \in handlers : h.retryCount < maxRetries

\* one step of an invocation: a fetch attempt moves it on or, as the third
\* failure, ends it; its one write (create or migration) ends it whether the
\* write succeeds or not; it ends with loading = false; and the create ends
\* either with the minimal profile stored and cached or with the error
\* surfaced, nothing stored and the cache empty
C37_Step ==
  \A h \in handlers :
    /\ (h.pc = "fetch" /\ h \notin handlers') =>
          \/ Returned(h)
          \/ Running(h, "create")
          \/ Running(h, "migrate")
          \/ \E g \in handlers' :
               g.id = h.id /\ g.pc = "wait" /\ g.retryCount = h.retryCount + 1
    /\ (h.pc = "wait" /\ h \notin handlers') =>
          \E g \in handlers' :
            g.id = h.id /\ g.pc = "fetch" /\ g.retryCount = h.retryCount
    /\ (h.pc \in {"create", "migrate"} /\ h \notin handlers') => Returned(h)
    /\ Returned(h) => loading' = FALSE
    /\ (h.pc = "create" /\ Returned(h)) =>
          \/ /\ store'[h.uid] = MinimalDoc
             /\ userProfile' = ProfileFromDoc(h.uid, MinimalDoc)
             /\ error' = error
          \/ /\ store' = store
             /\ error' = "create-failed"
             /\ userProfile' = NullProfile

\* C37: every invocation of the principal-change handler makes at most three
\* fetch attempts and at most one create or migration write and then sets
\* loading to false; a failed create is not retried, surfaces an error and
\* leaves the profile cache empty
C37_HandlerTerminates == []C37_Attempts /\ [][C37_Step]_vars

====
